---------------------------- MODULE Spec2Model ----------------------------
(***************************************************************************)
(* Check-in handling of the attendance application.                        *)
(*                                                                         *)
(* Three route handlers record attendance:                                 *)
(*   "att"  POST of src/app/api/attendance/route.ts                        *)
(*   "rec"  POST of src/app/api/face/recognition/route.ts                  *)
(*   "ver"  POST of src/unnamed/part_006                                   *)
(* Every await of a handler that reaches the database or reads the clock   *)
(* is one step of the request, so requests interleave between awaits.      *)
(* Spec runs two requests through the handlers; CalcSpec evaluates the     *)
(* pure functions of the handlers (location validation, face scorers) on   *)
(* their own, over rooms and descriptors Spec does not vary.               *)
(* EnrollSpec runs two requests through the face enrollment routes,        *)
(* AuthSpec through the middleware, requireAuth, logout and password       *)
(* reset, ApproveSpec through the admin approval route; RateSpec calls     *)
(* the two in-memory rate limiters.                                        *)
(*                                                                         *)
(* Units: instants are minutes since midnight of day 0; descriptor         *)
(* components, confidences and thresholds are thousandths; coordinates    *)
(* are metres of arc along one meridian (for equal longitudes the          *)
(* haversine distance is exactly R * |dLat|).                              *)
(***************************************************************************)
EXTENDS Integers, Sequences, FiniteSets, TLC

(* ------------------------------ bounds -------------------------------- *)
\* the clock runs through the first NumInstants of the instants below
NumInstants == 6

(* ------------------------- program constants -------------------------- *)
FACE_SIMILARITY_THRESHOLD == 600
maxDistance == 1000
checkInWindow == 15
RecLateThreshold == 10
AttLateThreshold == 15
VerLateThreshold == 15
DefaultRadius == 50

(* ------------------------------ fixtures ------------------------------ *)
UserId == "u1"
ClassId == "c1"
\* an optional value is a sequence of length 0 (undefined / null) or 1
Undefined == <<>>
Some(v) == <<v>>
NoInstant == 0 - 1

\* the two requests in flight
Requests == {1, 2}

\* the instants the clock passes through: 08:35, 08:50, 09:05, 09:12 and
\* 11:05 of day 0 (a Monday), 09:05 of day 1, 09:12 of day 7, 09:20 of day 14
AllInstants == <<515, 530, 545, 552, 665, (24 * 60) + 545, (7 * 24 * 60) + 552,
                 (14 * 24 * 60) + 560>>
Instants == SubSeq(AllInstants, 1, NumInstants)

Day(t) == t \div (24 * 60)
getDay(t) == (Day(t) + 1) % 7
getHours(t) == (t % (24 * 60)) \div 60
getMinutes(t) == t % 60

\* the class row; startTime/endTime are the instants read by "att" and
\* "ver", schedule and location are the columns read by "rec"
Class == [ id        |-> ClassId,
           startTime |-> 540,
           endTime   |-> 660,
           schedule  |-> [dayOfWeek |-> 1, startTime |-> <<9, 0>>, endTime |-> <<11, 0>>],
           location  |-> [wifiSsid |-> "CAMPUS", gpsLat |-> Some(1000), gpsLng |-> Some(7)],
           room      |-> [allowedWifiSSIDs |-> Some({"CAMPUS", "CAMPUS-5G"}),
                          latitude |-> Some(1000), longitude |-> Some(7),
                          radius |-> Undefined] ]

StoredDescriptor == <<100, 200>>
Descriptors == { <<100, 500>>, <<600, 700>> }
Thresholds == {500, 800}

Evidences ==
    { [wifiSsid |-> Undefined,      gpsLat |-> Undefined,  gpsLng |-> Undefined],
      [wifiSsid |-> Some("CAMPUS-5G"), gpsLat |-> Some(1049), gpsLng |-> Some(7)],
      [wifiSsid |-> Some("CAFE"),   gpsLat |-> Some(1049), gpsLng |-> Some(7)],
      [wifiSsid |-> Some("CAMPUS"), gpsLat |-> Some(1051), gpsLng |-> Some(7)] }

Endpoints == {"att", "rec", "ver"}

NoInput == [endpoint |-> "", faceDescriptors |-> <<>>, wifiSsid |-> Undefined,
            gpsLat |-> Undefined, gpsLng |-> Undefined]

(* ------------------------------ responses ----------------------------- *)
Response(statusCode, message) == [status |-> statusCode, error |-> message]
NoResponse == Response(0, "")
Created == Response(201, "")
Success == Response(200, "")
NotFound(message) == Response(404, message)

AttNotEnrolled   == Response(403, "You are not enrolled in this class")
AttDuplicate     == Response(409, "Attendance already recorded for today")
AttWifi          == Response(400, "WiFi network not allowed for this location")
AttTooFar        == Response(400, "Location too far from class room")
RecNoProfile     == Response(400, "Face profile not found. Please complete face enrollment first.")
RecNotEnrolled   == Response(403, "You are not enrolled in this class")
RecWifi          == Response(403, "Invalid location. Please connect to the correct WiFi network.")
RecWrongDay      == Response(400, "This class is not scheduled for today")
RecWindow        == Response(400, "Check-in is not available at this time")
RecMismatch      == Response(400, "Face recognition failed. Please try again.")
RecDuplicate     == Response(400, "You have already checked in for this class today")
VerNoProfile     == Response(400, "Face enrollment not completed. Please complete face enrollment first.")
VerMismatch      == Response(401, "Face verification failed. Please try again or update your face profile.")
VerNotEnrolled   == Response(403, "You are not enrolled in this class")
VerWindow        == Response(400, "Class is not currently active")
VerWifi          == Response(400, "WiFi network not allowed for this location")
VerTooFar        == Response(400, "Location too far from classroom")
VerDuplicate     == Response(409, "Attendance already recorded for today")

\* the errors thrown in a check-in handler: the unique-constraint error and
\* the connection error of prisma.attendance.create, the Error of
\* calculateDistance
UniqueConstraintError == [code |-> "P2002", message |-> "Unique constraint failed"]
ConnectionError == [code |-> "P1001", message |-> "Can't reach database server"]
LengthError == [code |-> "", message |-> "Face descriptor lengths do not match"]
\* prisma's error of an update or delete whose row is not there
RecordNotFoundError == [code |-> "P2025", message |-> "Record to update not found"]
\* the errors thrown by requireAuth
NoTokenError == [code |-> "", message |-> "No authentication token provided"]
InvalidTokenError == [code |-> "", message |-> "Invalid or expired token"]
\* the values of process.env.NODE_ENV
Environments == {"production", "development"}

\* handleApiError: the response the catch block of a handler returns for a
\* thrown error, under the NODE_ENV read at the call
handleApiError(error, NODE_ENV) ==
    IF error.code = "P2002" THEN Response(409, "Duplicate entry found")
    ELSE IF error.code = "P2025" THEN Response(404, "Record not found")
    ELSE IF error.message = "Authentication required" THEN Response(401, "Unauthorized")
    ELSE IF error.message = "Insufficient permissions" THEN Response(403, "Forbidden")
    ELSE Response(500, IF NODE_ENV = "development" THEN error.message
                       ELSE "Something went wrong")

(* --------------------------- pure functions --------------------------- *)
Abs(x) == IF x < 0 THEN 0 - x ELSE x
Max(a, b) == IF a > b THEN a ELSE b

RECURSIVE SumSquares(_, _, _)
SumSquares(a, b, i) ==
    IF i > Len(a) THEN 0
    ELSE (a[i] - b[i]) * (a[i] - b[i]) + SumSquares(a, b, i + 1)

\* the least k in lo..hi with k + 1/2 >= sqrt(s), by bisection
RECURSIVE RoundedRoot(_, _, _)
RoundedRoot(s, lo, hi) ==
    IF lo >= hi THEN lo
    ELSE LET mid == (lo + hi) \div 2
         IN  IF (2 * mid + 1) * (2 * mid + 1) >= 4 * s
             THEN RoundedRoot(s, lo, mid)
             ELSE RoundedRoot(s, mid + 1, hi)

\* a scorer that takes the absolute value of 1 - distance where the code
\* takes its maximum with 0
FoldedFaceConfidence(stored, current) ==
    IF Len(stored) # Len(current) \/ Len(stored) = 0 THEN 0
    ELSE Abs(maxDistance - RoundedRoot(SumSquares(stored, current, 1), 0, 4 * maxDistance))

\* calculateFaceConfidence of the "rec" handler, in thousandths:
\* Math.round(max(0, 1 - sqrt(s) / maxDistance) * 1000) is maxDistance - k
\* for the least natural k with k + 1/2 >= sqrt(s), when sqrt(s) < maxDistance
calculateFaceConfidence(stored, current) ==
    IF Len(stored) # Len(current) \/ Len(stored) = 0 THEN 0
    ELSE LET sumSquares == SumSquares(stored, current, 1)
         IN  IF sumSquares >= maxDistance * maxDistance THEN 0
             ELSE Max(0, maxDistance - RoundedRoot(sumSquares, 0, maxDistance))

\* "similarity < FACE_SIMILARITY_THRESHOLD" of the "ver" handler, where
\* similarity = 1 - sqrt(sum): 1000 - sqrt(s) < 600 iff s > 400 * 400
VerSimilarityTooLow(submitted, stored) ==
    LET sum == SumSquares(submitted, stored, 1)
        d   == 1000 - FACE_SIMILARITY_THRESHOLD
    IN  sum > d * d

\* calculateDistance of "ver": the Euclidean distance of two descriptors,
\* held as its square (the sum of the squared differences); Undefined when
\* it throws for descriptors of different lengths
calculateDistance(descriptors1, descriptors2) ==
    IF Len(descriptors1) # Len(descriptors2) THEN Undefined
    ELSE Some(SumSquares(descriptors1, descriptors2, 1))

\* a face check that rejects a confidence equal to the threshold
RecFaceCheckStrict(profile, faceDescriptors) ==
    IF calculateFaceConfidence(profile.faceDescriptors, faceDescriptors)
          <= profile.confidenceThreshold
    THEN RecMismatch
    ELSE NoResponse

\* the face check of "rec": the response returned for the submitted
\* descriptor, NoResponse when the handler goes on
RecFaceCheck(profile, faceDescriptors) ==
    IF calculateFaceConfidence(profile.faceDescriptors, faceDescriptors)
          < profile.confidenceThreshold
    THEN RecMismatch
    ELSE NoResponse

\* the face check of "ver": the error thrown by calculateDistance reaches
\* the catch block of the handler
VerFaceCheck(profile, faceDescriptors, NODE_ENV) ==
    IF calculateDistance(faceDescriptors, profile.faceDescriptors) = Undefined
    THEN handleApiError(LengthError, NODE_ENV)
    ELSE IF VerSimilarityTooLow(faceDescriptors, profile.faceDescriptors)
    THEN VerMismatch
    ELSE NoResponse

\* a distance that keeps the sign of the difference of the coordinates
SignedGPSDistance(lat1, lng1, lat2, lng2) ==
    CASE lng1 = lng2 -> lat2 - lat1
      [] lng1 # lng2 /\ lat1 = 0 /\ lat2 = 0 -> lng2 - lng1

\* haversine distance in metres, for two points of one meridian (dLon = 0
\* gives a = sin^2(dLat/2), c = |dLat|, so R * c is the arc between the
\* latitudes) and for two points of the equator (a = sin^2(dLon/2))
calculateGPSDistance(lat1, lng1, lat2, lng2) ==
    CASE lng1 = lng2 -> Abs(lat2 - lat1)
      [] lng1 # lng2 /\ lat1 = 0 /\ lat2 = 0 -> Abs(lng2 - lng1)

\* calculateDistance of "att", the haversine distance in kilometres times
\* 1000 (the name calculateDistance is that of the descriptor distance of
\* "ver" here)
attCalculateDistance(lat1, lon1, lat2, lon2) ==
    CASE lon1 = lon2 -> Abs(lat2 - lat1)
      [] lon1 # lon2 /\ lat1 = 0 /\ lat2 = 0 -> Abs(lon2 - lon1)

\* JavaScript truthiness of an optional string and of an optional number
TruthyString(v) == v # Undefined /\ v[1] # ""
TruthyNumber(v) == v # Undefined /\ v[1] # 0

\* "room.radius || 50"
MaxRoomDistance(room) == IF TruthyNumber(room.radius) THEN room.radius[1] ELSE DefaultRadius

\* validateLocation of "att" without its WiFi check
validateLocationWithoutWifi(classRoom, coordinates, wifiSSID) ==
    LET room == classRoom.room IN
    IF coordinates # Undefined /\ TruthyNumber(room.latitude) /\ TruthyNumber(room.longitude)
            /\ attCalculateDistance(coordinates[1].latitude, coordinates[1].longitude,
                                    room.latitude[1], room.longitude[1]) > MaxRoomDistance(room)
    THEN AttTooFar
    ELSE NoResponse

\* validateLocation of "att", with the class row it loads: NoResponse when
\* valid, else the error returned
validateLocation(classRoom, coordinates, wifiSSID) ==
    LET room == classRoom.room IN
    IF TruthyString(wifiSSID) /\ room.allowedWifiSSIDs # Undefined
          /\ wifiSSID[1] \notin room.allowedWifiSSIDs[1]
    THEN AttWifi
    ELSE IF coordinates # Undefined /\ TruthyNumber(room.latitude) /\ TruthyNumber(room.longitude)
            /\ attCalculateDistance(coordinates[1].latitude, coordinates[1].longitude,
                                    room.latitude[1], room.longitude[1]) > MaxRoomDistance(room)
    THEN AttTooFar
    ELSE NoResponse

\* verifyLocation of "ver" rejecting a request without any evidence
verifyLocationRequiresEvidence(classInfo, wifiSsid, gpsLat, gpsLng) ==
    LET room == classInfo.room IN
    IF ~TruthyString(wifiSsid) /\ ~TruthyNumber(gpsLat)
    THEN VerTooFar
    ELSE IF TruthyString(wifiSsid) /\ room.allowedWifiSSIDs # Undefined
          /\ wifiSsid[1] \notin room.allowedWifiSSIDs[1]
    THEN VerWifi
    ELSE NoResponse

\* verifyLocation of "ver", with the class row it loads
verifyLocation(classInfo, wifiSsid, gpsLat, gpsLng) ==
    LET room == classInfo.room IN
    IF TruthyString(wifiSsid) /\ room.allowedWifiSSIDs # Undefined
          /\ wifiSsid[1] \notin room.allowedWifiSSIDs[1]
    THEN VerWifi
    ELSE IF TruthyNumber(gpsLat) /\ TruthyNumber(gpsLng)
            /\ TruthyNumber(room.latitude) /\ TruthyNumber(room.longitude)
            /\ calculateGPSDistance(gpsLat[1], gpsLng[1], room.latitude[1], room.longitude[1])
                 > MaxRoomDistance(room)
    THEN VerTooFar
    ELSE NoResponse

\* the WiFi check of "rec": "wifiSsid && classInfo.location.wifiSsid !== wifiSsid"
RecWifiRejected(classInfo, wifiSsid) ==
    TruthyString(wifiSsid) /\ classInfo.location.wifiSsid # wifiSsid[1]

(* -------------------------------- state ------------------------------- *)
VARIABLES
    clock,          \* index into Instants of the current instant
    uniqueIndex,    \* whether the attendance table rejects a second row of one (user, class, day)
    enrollment,     \* status of the user's enrollment row: "NONE" (no row), "ACTIVE", "INACTIVE"
    faceProfile,    \* the user's faceProfile row, as an optional value
    session,        \* the user's session row
    attendance,     \* the attendance table
    faceQualityLog, \* the faceQualityLog table
    pc,             \* position of each request in its handler
    input,          \* endpoint and body of each request
    now,            \* the handler's local "now"
    today,          \* the handler's local "today" (a day number)
    response,       \* the response each request returned
    calc,           \* the call of a pure function under evaluation, with its result
    user,           \* the user's row of the user table: status and password
    sessions,       \* the session table
    passwordReset,  \* the passwordReset table
    local,          \* the other locals of each request's handler
    store,          \* InMemoryRateLimit.store
    rateLimitStore, \* the Map rateLimitStore
    log             \* the calls made to the rate limiters, with their results

vars == <<clock, uniqueIndex, enrollment, faceProfile, session, attendance,
          faceQualityLog, pc, input, now, today, response, calc,
          user, sessions, passwordReset, local, store, rateLimitStore, log>>

\* the tables and stores that the check-in handlers, once authenticated, and
\* the pure functions leave alone
services == <<user, sessions, passwordReset, local, store, rateLimitStore, log>>

db == <<uniqueIndex, enrollment, faceProfile>>

Date == Instants[clock]

\* no pure function is under evaluation
NoCalc == [fn |-> "", classRoom |-> Class, wifiSsid |-> Undefined, gpsLat |-> Undefined,
           gpsLng |-> Undefined, stored |-> <<>>, current |-> <<>>, threshold |-> 0,
           result |-> NoResponse, current2 |-> <<>>, p1 |-> <<0, 0>>, p2 |-> <<0, 0>>,
           result2 |-> NoResponse]

\* the user as the check-in handlers meet them once authenticated: ACTIVE,
\* with a session that does not expire while the model runs
ActiveUser == [status |-> "ACTIVE", password |-> "old"]
LiveSession == [id |-> "s1", userId |-> UserId,
                expiresAt |-> AllInstants[Len(AllInstants)] + 1, lastActivity |-> 0]
\* a handler without other locals
NoLocal == [x \in {} |-> 0]
\* a rate limiter store without entries
NoEntries == [k \in {} |-> 0]

Init ==
    /\ clock = 1
    /\ uniqueIndex \in BOOLEAN
    /\ enrollment \in {"NONE", "ACTIVE", "INACTIVE"}
    /\ faceProfile \in {Undefined} \cup
          { Some(p) : p \in [userId : {UserId}, faceDescriptors : {StoredDescriptor},
                              confidenceThreshold : Thresholds,
                              enrollmentStatus : {"COMPLETED", "PENDING"}] }
    /\ session = [userId |-> UserId, lastActivity |-> 0]
    /\ attendance = {}
    /\ faceQualityLog = {}
    /\ pc = [r \in Requests |-> "idle"]
    /\ input = [r \in Requests |-> NoInput]
    /\ now = [r \in Requests |-> NoInstant]
    /\ today = [r \in Requests |-> NoInstant]
    /\ response = [r \in Requests |-> NoResponse]
    /\ calc = NoCalc
    /\ user = ActiveUser
    /\ sessions = {LiveSession}
    /\ passwordReset = {}
    /\ local = [r \in Requests |-> NoLocal]
    /\ store = NoEntries
    /\ rateLimitStore = NoEntries
    /\ log = <<>>

(* ------------------------------- helpers ------------------------------ *)
\* the handler of r goes on to label with the locals now = n, today = t
Goto(r, label, n, t) ==
    /\ pc' = [pc EXCEPT ![r] = label]
    /\ now' = [now EXCEPT ![r] = n]
    /\ today' = [today EXCEPT ![r] = t]
    /\ UNCHANGED response

\* the handler of r returns resp; its locals are gone
Return(r, resp) ==
    /\ pc' = [pc EXCEPT ![r] = "done"]
    /\ now' = [now EXCEPT ![r] = NoInstant]
    /\ today' = [today EXCEPT ![r] = NoInstant]
    /\ response' = [response EXCEPT ![r] = resp]

\* prisma.attendance.findFirst({userId, classId, createdAt in [today, tomorrow)})
existingAttendance(day) ==
    \E a \in attendance : a.userId = UserId /\ a.classId = ClassId /\ Day(a.createdAt) = day

\* prisma.attendance.create throws P2002 when the table has the unique
\* index and holds a row of the same (user, class, day)
CreateThrows(row) == uniqueIndex /\ existingAttendance(Day(row.createdAt))

Row(r, status, createdAt, confidenceScore, faceMatchScore, wifiSsid, gpsLat, gpsLng) ==
    [ id |-> r, userId |-> UserId, classId |-> ClassId, status |-> status,
      createdAt |-> createdAt, confidenceScore |-> confidenceScore,
      faceMatchScore |-> faceMatchScore,
      wifiSsid |-> wifiSsid, gpsLat |-> gpsLat, gpsLng |-> gpsLng,
      endpoint |-> input[r].endpoint ]

\* "wifiSsid || null"
OrNull(v) == IF TruthyString(v) THEN v ELSE Undefined

\* prisma.attendance.create as an upsert that replaces the record of the day
CreateReplacesRecordOfDay(r, row, accepted) ==
    \/ /\ attendance' = {a \in attendance : Day(a.createdAt) # Day(row.createdAt)}
                            \cup {row}
       /\ accepted
    \/ /\ \E env \in Environments : Return(r, handleApiError(ConnectionError, env))
       /\ UNCHANGED attendance

\* prisma.attendance.create storing the row although the connection fails
CreateStoresOnFailure(r, row, accepted) ==
    \/ /\ CreateThrows(row)
       /\ \E env \in Environments : Return(r, handleApiError(UniqueConstraintError, env))
       /\ UNCHANGED attendance
    \/ /\ ~CreateThrows(row)
       /\ attendance' = attendance \cup {row}
       /\ accepted
    \/ /\ \E env \in Environments : Return(r, handleApiError(ConnectionError, env))
       /\ attendance' = attendance \cup {row}

\* prisma.attendance.create: the insert throws for the duplicate key, or
\* stores the row and the handler goes on as accepted says, or fails for
\* the connection; a thrown error reaches the catch block of the handler
Create(r, row, accepted) ==
    \/ /\ CreateThrows(row)
       /\ \E env \in Environments : Return(r, handleApiError(UniqueConstraintError, env))
       /\ UNCHANGED attendance
    \/ /\ ~CreateThrows(row)
       /\ attendance' = attendance \cup {row}
       /\ accepted
    \/ /\ \E env \in Environments : Return(r, handleApiError(ConnectionError, env))
       /\ UNCHANGED attendance

FirstStep(ep) ==
    CASE ep = "att" -> "att_class"
      [] ep = "rec" -> "rec_profile"
      [] ep = "ver" -> "ver_profile"

(* ------------------------------- actions ------------------------------ *)
\* the clock advances; the instants are minutes apart and the awaits of a
\* handler are not, so it advances between requests
Tick ==
    /\ clock < Len(Instants)
    /\ \A r \in Requests : pc[r] \in {"idle", "done"}
    /\ clock' = clock + 1
    /\ UNCHANGED <<db, calc, services, session, attendance, faceQualityLog, pc, input, now, today, response>>

\* a request arrives at one of the three endpoints and is authenticated:
\* requireAuth -> getUserFromToken finds the session and updates its
\* lastActivity
Start(r) ==
    /\ pc[r] = "idle"
    /\ \A q \in Requests : q < r => pc[q] # "idle"
    /\ \E ep \in Endpoints, d \in Descriptors, ev \in Evidences :
          /\ input' = [input EXCEPT ![r] =
                         [endpoint |-> ep, faceDescriptors |-> d, wifiSsid |-> ev.wifiSsid,
                          gpsLat |-> ev.gpsLat, gpsLng |-> ev.gpsLng]]
          /\ Goto(r, FirstStep(ep), NoInstant, NoInstant)
    /\ session' = [session EXCEPT !.lastActivity = Date]
    /\ UNCHANGED <<clock, db, calc, services, attendance, faceQualityLog>>

(* ---- POST of src/app/api/attendance/route.ts ---- *)
\* prisma.class.findUnique including the user's enrollments (any status)
AttClass(r) ==
    /\ pc[r] = "att_class"
    /\ IF enrollment = "NONE"
       THEN Return(r, AttNotEnrolled)
       ELSE Goto(r, "att_dup", now[r], today[r])
    /\ UNCHANGED <<clock, db, calc, services, session, attendance, faceQualityLog, input>>

\* today = new Date() at midnight; prisma.attendance.findFirst
AttDup(r) ==
    /\ pc[r] = "att_dup"
    /\ IF existingAttendance(Day(Date))
       THEN Return(r, AttDuplicate)
       ELSE Goto(r, "att_loc", now[r], Day(Date))
    /\ UNCHANGED <<clock, db, calc, services, session, attendance, faceQualityLog, input>>

\* validateLocation (reads the class and its room)
AttLoc(r) ==
    /\ pc[r] = "att_loc"
    /\ LET coordinates == IF input[r].gpsLat = Undefined THEN Undefined
                          ELSE Some([latitude |-> input[r].gpsLat[1],
                                     longitude |-> input[r].gpsLng[1]])
           locationValidation == validateLocation(Class, coordinates, input[r].wifiSsid)
       IN  IF locationValidation # NoResponse
           THEN Return(r, locationValidation)
           ELSE Goto(r, "att_create", now[r], today[r])
    /\ UNCHANGED <<clock, db, calc, services, session, attendance, faceQualityLog, input>>

\* now = new Date(); status; prisma.attendance.create with createdAt = now
AttCreate(r) ==
    /\ pc[r] = "att_create"
    /\ LET status == IF Date > Class.startTime + AttLateThreshold THEN "LATE" ELSE "PRESENT"
           row == Row(r, status, Date, Undefined, Undefined, OrNull(input[r].wifiSsid),
                      input[r].gpsLat, input[r].gpsLng)
       IN  Create(r, row, Return(r, Created))
    /\ UNCHANGED <<clock, db, calc, services, session, faceQualityLog, input>>

(* ---- POST of src/app/api/face/recognition/route.ts ---- *)
\* prisma.faceProfile.findFirst
RecProfile(r) ==
    /\ pc[r] = "rec_profile"
    /\ IF faceProfile = Undefined
       THEN Return(r, RecNoProfile)
       ELSE Goto(r, "rec_class", now[r], today[r])
    /\ UNCHANGED <<clock, db, calc, services, session, attendance, faceQualityLog, input>>

RecCurrentTime(t) == getHours(t) * 60 + getMinutes(t)
RecStartTime == Class.schedule.startTime[1] * 60 + Class.schedule.startTime[2]
RecEndTime == Class.schedule.endTime[1] * 60 + Class.schedule.endTime[2]
RecConfidence(r) ==
    calculateFaceConfidence(faceProfile[1].faceDescriptors, input[r].faceDescriptors)

\* prisma.class.findUnique including location and ACTIVE enrollments; the
\* WiFi, schedule and face checks that follow it without an await
RecClass(r) ==
    /\ pc[r] = "rec_class"
    /\ LET wifiSsid == input[r].wifiSsid
           currentTime == RecCurrentTime(Date)
       IN  IF enrollment # "ACTIVE"
           THEN Return(r, RecNotEnrolled)
           ELSE IF RecWifiRejected(Class, wifiSsid)
           THEN Return(r, RecWifi)
           ELSE IF Class.schedule.dayOfWeek # getDay(Date)
           THEN Return(r, RecWrongDay)
           ELSE IF currentTime < RecStartTime - checkInWindow \/ currentTime > RecEndTime
           THEN Return(r, RecWindow)
           ELSE IF RecFaceCheck(faceProfile[1], input[r].faceDescriptors) # NoResponse
           THEN Goto(r, "rec_faillog", Date, today[r])
           ELSE Goto(r, "rec_dup", Date, today[r])
    /\ UNCHANGED <<clock, db, calc, services, session, attendance, faceQualityLog, input>>

\* prisma.faceQualityLog.create for the failed attempt
RecFailLog(r) ==
    /\ pc[r] = "rec_faillog"
    /\ faceQualityLog' = faceQualityLog \cup
          {[id |-> r, userId |-> UserId, success |-> FALSE, confidence |-> RecConfidence(r)]}
    /\ Return(r, RecFaceCheck(faceProfile[1], input[r].faceDescriptors))
    /\ UNCHANGED <<clock, db, calc, services, session, attendance, input>>

\* today = new Date() at midnight; prisma.attendance.findFirst
RecDup(r) ==
    /\ pc[r] = "rec_dup"
    /\ IF existingAttendance(Day(Date))
       THEN Return(r, RecDuplicate)
       ELSE Goto(r, "rec_create", now[r], Day(Date))
    /\ UNCHANGED <<clock, db, calc, services, session, attendance, faceQualityLog, input>>

\* status from the currentTime read before; prisma.attendance.create, whose
\* timestamp column defaults to the instant of the insert
RecCreate(r) ==
    /\ pc[r] = "rec_create"
    /\ LET status == IF RecCurrentTime(now[r]) > RecStartTime + RecLateThreshold
                     THEN "LATE" ELSE "PRESENT"
           row == Row(r, status, Date, Some(RecConfidence(r)), Undefined,
                      input[r].wifiSsid, input[r].gpsLat, input[r].gpsLng)
       IN  Create(r, row, Goto(r, "rec_log", now[r], today[r]))
    /\ UNCHANGED <<clock, db, calc, services, session, faceQualityLog, input>>

\* prisma.faceQualityLog.create for the successful attempt
RecLog(r) ==
    /\ pc[r] = "rec_log"
    /\ faceQualityLog' = faceQualityLog \cup
          {[id |-> r, userId |-> UserId, success |-> TRUE, confidence |-> RecConfidence(r)]}
    /\ Return(r, Created)
    /\ UNCHANGED <<clock, db, calc, services, session, attendance, input>>

(* ---- POST of src/unnamed/part_006 ---- *)
\* prisma.faceProfile.findUnique; calculateDistance (which throws on
\* descriptors of different lengths) and the similarity check
VerProfile(r) ==
    /\ pc[r] = "ver_profile"
    /\ IF faceProfile = Undefined \/ faceProfile[1].enrollmentStatus # "COMPLETED"
       THEN Return(r, VerNoProfile)
       ELSE \E env \in Environments :
              LET faceCheck == VerFaceCheck(faceProfile[1], input[r].faceDescriptors, env)
              IN  IF faceCheck # NoResponse
                  THEN Return(r, faceCheck)
                  ELSE Goto(r, "ver_enroll", now[r], today[r])
    /\ UNCHANGED <<clock, db, calc, services, session, attendance, faceQualityLog, input>>

\* prisma.enrollment.findFirst with status ACTIVE; now = new Date() and the
\* "class is currently active" check
VerEnroll(r) ==
    /\ pc[r] = "ver_enroll"
    /\ IF enrollment # "ACTIVE"
       THEN Return(r, VerNotEnrolled)
       ELSE IF Date < Class.startTime \/ Date > Class.endTime
       THEN Return(r, VerWindow)
       ELSE Goto(r, "ver_loc", Date, today[r])
    /\ UNCHANGED <<clock, db, calc, services, session, attendance, faceQualityLog, input>>

\* verifyLocation (reads the class and its room)
VerLoc(r) ==
    /\ pc[r] = "ver_loc"
    /\ LET locationVerification ==
               verifyLocation(Class, input[r].wifiSsid, input[r].gpsLat, input[r].gpsLng)
       IN  IF locationVerification # NoResponse
           THEN Return(r, locationVerification)
           ELSE Goto(r, "ver_dup", now[r], today[r])
    /\ UNCHANGED <<clock, db, calc, services, session, attendance, faceQualityLog, input>>

\* the duplicate check of "ver" with the insert issued before the read's
\* result is looked at
VerDupInsertsFirst(r) ==
    /\ pc[r] = "ver_dup"
    /\ IF existingAttendance(Day(Date))
       THEN /\ attendance' = attendance \cup
                   {Row(r, "PRESENT", now[r], Undefined, Undefined, Undefined, Undefined,
                        Undefined)}
            /\ Return(r, VerDuplicate)
       ELSE /\ UNCHANGED attendance
            /\ Goto(r, "ver_create", now[r], Day(Date))
    /\ UNCHANGED <<clock, db, calc, services, session, faceQualityLog, input>>

\* today = new Date() at midnight; prisma.attendance.findFirst
VerDup(r) ==
    /\ pc[r] = "ver_dup"
    /\ IF existingAttendance(Day(Date))
       THEN Return(r, VerDuplicate)
       ELSE Goto(r, "ver_create", now[r], Day(Date))
    /\ UNCHANGED <<clock, db, calc, services, session, attendance, faceQualityLog, input>>

\* status from the now read before; prisma.attendance.create with
\* createdAt = now; the similarity 1 - distance is stored, held as the
\* square of the distance
VerCreate(r) ==
    /\ pc[r] = "ver_create"
    /\ LET status == IF now[r] > Class.startTime + VerLateThreshold THEN "LATE" ELSE "PRESENT"
           gps == TruthyNumber(input[r].gpsLat) /\ TruthyNumber(input[r].gpsLng)
           row == Row(r, status, now[r], Undefined,
                      calculateDistance(input[r].faceDescriptors,
                                        faceProfile[1].faceDescriptors),
                      OrNull(input[r].wifiSsid),
                      IF gps THEN input[r].gpsLat ELSE Undefined,
                      IF gps THEN input[r].gpsLng ELSE Undefined)
       IN  Create(r, row, Return(r, Created))
    /\ UNCHANGED <<clock, db, calc, services, session, faceQualityLog, input>>

Next ==
    \/ Tick
    \/ \E r \in Requests : Start(r)
    \/ \E r \in Requests : AttClass(r)
    \/ \E r \in Requests : AttDup(r)
    \/ \E r \in Requests : AttLoc(r)
    \/ \E r \in Requests : AttCreate(r)
    \/ \E r \in Requests : RecProfile(r)
    \/ \E r \in Requests : RecClass(r)
    \/ \E r \in Requests : RecFailLog(r)
    \/ \E r \in Requests : RecDup(r)
    \/ \E r \in Requests : RecCreate(r)
    \/ \E r \in Requests : RecLog(r)
    \/ \E r \in Requests : VerProfile(r)
    \/ \E r \in Requests : VerEnroll(r)
    \/ \E r \in Requests : VerLoc(r)
    \/ \E r \in Requests : VerDup(r)
    \/ \E r \in Requests : VerCreate(r)

Spec == Init /\ [][Next]_vars

(* ------------------- the pure functions on their own ------------------ *)
\* the rooms a class can have: the room of Class, a room without any
\* constraint, a room with a WiFi list only, a room with a centre and a
\* radius of 30 metres only, a room on the equator
Rooms ==
    { Class.room,
      [allowedWifiSSIDs |-> Undefined, latitude |-> Undefined, longitude |-> Undefined,
       radius |-> Undefined],
      [allowedWifiSSIDs |-> Some({"CAMPUS"}), latitude |-> Undefined,
       longitude |-> Undefined, radius |-> Undefined],
      [allowedWifiSSIDs |-> Undefined, latitude |-> Some(1000), longitude |-> Some(7),
       radius |-> Some(30)],
      [allowedWifiSSIDs |-> Undefined, latitude |-> Some(0), longitude |-> Some(7),
       radius |-> Undefined] }
ClassRooms == { [Class EXCEPT !.room = rm] : rm \in Rooms }
CalcSsids == {Undefined, Some("CAMPUS"), Some("CAFE")}
CalcLats == {Undefined, Some(0), Some(951), Some(1049), Some(1051)}
CalcLngs == {Undefined, Some(7)}
\* descriptors as the two schemas admit them (at least 128 numbers, here 2):
\* of the least length and longer
CalcStored == { <<100, 200>>, <<100, 200, 300>> }
CalcCurrent == { <<100, 200>>, <<100, 500>>, <<200, 500>>, <<600, 700>>,
                 <<1000, 1400>>, <<100, 200, 300>>, <<100, 500, 300>> }
\* the thresholds faceEnrollmentSchema admits: 0, 0.5, 0.8 (the default), 1
CalcThresholds == {0, 500, 800, 1000}
\* points <<latitude, longitude>>: four of the meridian of the room, north
\* and south of the equator, and three of the equator
CalcPoints == { <<1000, 7>>, <<1049, 7>>, <<0 - 300, 7>>, <<0, 7>>, <<0, 30>>,
                <<0, 0 - 20>> }

handlerVars == <<clock, db, session, attendance, faceQualityLog, pc, input, now, today,
                 response, services>>

CalcInit ==
    /\ clock = 1
    /\ uniqueIndex = FALSE
    /\ enrollment = "ACTIVE"
    /\ faceProfile = Undefined
    /\ session = [userId |-> UserId, lastActivity |-> 0]
    /\ attendance = {}
    /\ faceQualityLog = {}
    /\ pc = [r \in Requests |-> "idle"]
    /\ input = [r \in Requests |-> NoInput]
    /\ now = [r \in Requests |-> NoInstant]
    /\ today = [r \in Requests |-> NoInstant]
    /\ response = [r \in Requests |-> NoResponse]
    /\ calc = NoCalc
    /\ user = ActiveUser
    /\ sessions = {LiveSession}
    /\ passwordReset = {}
    /\ local = [r \in Requests |-> NoLocal]
    /\ store = NoEntries
    /\ rateLimitStore = NoEntries
    /\ log = <<>>

\* validateLocation of "att" is called
CalcValidateLocation ==
    /\ \E cr \in ClassRooms, w \in CalcSsids, lat \in CalcLats, lng \in CalcLngs :
          /\ (lat = Undefined) = (lng = Undefined)
          /\ LET coordinates == IF lat = Undefined THEN Undefined
                                ELSE Some([latitude |-> lat[1], longitude |-> lng[1]])
             IN  calc' = [NoCalc EXCEPT !.fn = "validateLocation", !.classRoom = cr,
                                        !.wifiSsid = w, !.gpsLat = lat, !.gpsLng = lng,
                                        !.result = validateLocation(cr, coordinates, w)]
    /\ UNCHANGED handlerVars

\* verifyLocation of "ver" is called
CalcVerifyLocation ==
    /\ \E cr \in ClassRooms, w \in CalcSsids, lat \in CalcLats, lng \in CalcLngs :
          calc' = [NoCalc EXCEPT !.fn = "verifyLocation", !.classRoom = cr,
                                 !.wifiSsid = w, !.gpsLat = lat, !.gpsLng = lng,
                                 !.result = verifyLocation(cr, w, lat, lng)]
    /\ UNCHANGED handlerVars

\* the WiFi check of "rec" is made
CalcRecWifi ==
    /\ \E cr \in ClassRooms, w \in CalcSsids, lat \in CalcLats, lng \in CalcLngs :
          calc' = [NoCalc EXCEPT !.fn = "recWifi", !.classRoom = cr,
                                 !.wifiSsid = w, !.gpsLat = lat, !.gpsLng = lng,
                                 !.result = IF RecWifiRejected(cr, w) THEN RecWifi
                                            ELSE NoResponse]
    /\ UNCHANGED handlerVars

\* calculateFaceConfidence of "rec" is called
CalcFaceConfidence ==
    /\ \E st \in CalcStored, cu \in CalcCurrent :
          calc' = [NoCalc EXCEPT !.fn = "calculateFaceConfidence", !.stored = st,
                                 !.current = cu,
                                 !.result = calculateFaceConfidence(st, cu)]
    /\ UNCHANGED handlerVars

\* calculateDistance of "ver" is called with the submitted and the stored
\* descriptor
CalcDistance ==
    /\ \E st \in CalcStored, cu \in CalcCurrent :
          calc' = [NoCalc EXCEPT !.fn = "calculateDistance", !.stored = st,
                                 !.current = cu,
                                 !.result = calculateDistance(cu, st)]
    /\ UNCHANGED handlerVars

\* the face check of "rec" is made for a profile with the stored descriptor
\* and a confidence threshold
CalcRecFaceCheck ==
    /\ \E st \in CalcStored, cu \in CalcCurrent, th \in CalcThresholds :
          calc' = [NoCalc EXCEPT !.fn = "recFaceCheck", !.stored = st, !.current = cu,
                                 !.threshold = th,
                                 !.result = RecFaceCheck([faceDescriptors |-> st,
                                                          confidenceThreshold |-> th], cu)]
    /\ UNCHANGED handlerVars

\* the face check of "ver" is made
CalcVerFaceCheck ==
    /\ \E st \in CalcStored, cu \in CalcCurrent, env \in Environments :
          calc' = [NoCalc EXCEPT !.fn = "verFaceCheck", !.stored = st, !.current = cu,
                                 !.result = VerFaceCheck([faceDescriptors |-> st], cu, env)]
    /\ UNCHANGED handlerVars

\* calculateFaceConfidence is called for one stored and two submitted
\* descriptors
CalcFaceConfidencePair ==
    /\ \E st \in CalcStored, c1 \in CalcCurrent, c2 \in CalcCurrent :
          calc' = [NoCalc EXCEPT !.fn = "calculateFaceConfidencePair", !.stored = st,
                                 !.current = c1, !.current2 = c2,
                                 !.result = calculateFaceConfidence(st, c1),
                                 !.result2 = calculateFaceConfidence(st, c2)]
    /\ UNCHANGED handlerVars

\* the face check of "ver" is made for one stored and two submitted
\* descriptors
CalcVerFaceCheckPair ==
    /\ \E st \in CalcStored, c1 \in CalcCurrent, c2 \in CalcCurrent, env \in Environments :
          calc' = [NoCalc EXCEPT !.fn = "verFaceCheckPair", !.stored = st,
                                 !.current = c1, !.current2 = c2,
                                 !.result = VerFaceCheck([faceDescriptors |-> st], c1, env),
                                 !.result2 = VerFaceCheck([faceDescriptors |-> st], c2, env)]
    /\ UNCHANGED handlerVars

\* two points <<latitude, longitude>> of one meridian or of the equator
PointPairs ==
    { pq \in CalcPoints \X CalcPoints :
        pq[1][2] = pq[2][2] \/ (pq[1][1] = 0 /\ pq[2][1] = 0) }

\* calculateGPSDistance of "ver" is called for two points, in both orders
CalcGPSDistance ==
    /\ \E pq \in PointPairs :
          calc' = [NoCalc EXCEPT !.fn = "calculateGPSDistance", !.p1 = pq[1], !.p2 = pq[2],
                      !.result = calculateGPSDistance(pq[1][1], pq[1][2], pq[2][1], pq[2][2]),
                      !.result2 = calculateGPSDistance(pq[2][1], pq[2][2], pq[1][1], pq[1][2])]
    /\ UNCHANGED handlerVars

\* calculateDistance of "att" is called for two points, in both orders
CalcAttDistance ==
    /\ \E pq \in PointPairs :
          calc' = [NoCalc EXCEPT !.fn = "attCalculateDistance", !.p1 = pq[1], !.p2 = pq[2],
                      !.result = attCalculateDistance(pq[1][1], pq[1][2], pq[2][1], pq[2][2]),
                      !.result2 = attCalculateDistance(pq[2][1], pq[2][2], pq[1][1], pq[1][2])]
    /\ UNCHANGED handlerVars

CalcNext ==
    \/ CalcValidateLocation
    \/ CalcVerifyLocation
    \/ CalcRecWifi
    \/ CalcFaceConfidence
    \/ CalcDistance
    \/ CalcRecFaceCheck
    \/ CalcVerFaceCheck
    \/ CalcFaceConfidencePair
    \/ CalcVerFaceCheckPair
    \/ CalcGPSDistance
    \/ CalcAttDistance

CalcSpec == CalcInit /\ [][CalcNext]_vars

(* ======================= the claims, C1 to C10 ======================== *)
\* the named failures of the admission decision, as the responses the
\* handlers return for them
NotEnrolled == {AttNotEnrolled, RecNotEnrolled, VerNotEnrolled}
FaceProfileMissing == {RecNoProfile, VerNoProfile}
FaceMismatch == {RecMismatch, VerMismatch}
DuplicateCheckIn == {AttDuplicate, RecDuplicate, VerDuplicate}
LocationRejected == {AttWifi, AttTooFar, RecWifi, VerWifi, VerTooFar}
OutsideCheckInWindow == {RecWrongDay, RecWindow, VerWindow}
AdmissionFailures ==
    NotEnrolled \cup FaceProfileMissing \cup FaceMismatch \cup DuplicateCheckIn
      \cup LocationRejected \cup OutsideCheckInWindow

\* the response of an endpoint whose read finds today's record
DuplicateResponse(ep) ==
    CASE ep = "att" -> AttDuplicate
      [] ep = "rec" -> RecDuplicate
      [] ep = "ver" -> VerDuplicate

Done(r) == pc[r] = "done"
Completes(r) == pc[r] # "done" /\ pc'[r] = "done"
RowsOf(r) == {a \in attendance : a.id = r}
LogsOf(r) == {l \in faceQualityLog : l.id = r}
OthersAtRest(r) == \A q \in Requests \ {r} : pc[q] \in {"idle", "done"}
RecordOfOtherToday(r) ==
    \E a \in attendance : a.id # r /\ a.userId = UserId /\ a.classId = ClassId
                           /\ Day(a.createdAt) = Day(Date)

\* the admission checks of a request as the specification states them
HasActiveEnrollment == enrollment = "ACTIVE"
HasFaceProfile == faceProfile # Undefined
FaceMatches(r) ==
    /\ HasFaceProfile
    /\ calculateFaceConfidence(faceProfile[1].faceDescriptors, input[r].faceDescriptors)
          >= faceProfile[1].confidenceThreshold
LocationValid(r) ==
    validateLocation(Class,
                     IF input[r].gpsLat = Undefined THEN Undefined
                     ELSE Some([latitude |-> input[r].gpsLat[1],
                                longitude |-> input[r].gpsLng[1]]),
                     input[r].wifiSsid) = NoResponse
\* a request every handler lets through its enrollment and face checks
PassesEnrollmentAndFace(r) ==
    /\ HasActiveEnrollment
    /\ HasFaceProfile /\ faceProfile[1].enrollmentStatus = "COMPLETED"
    /\ FaceMatches(r)
    /\ ~VerSimilarityTooLow(input[r].faceDescriptors, faceProfile[1].faceDescriptors)

\* C1: under any interleaving of concurrent check-ins the ledger never
\* holds two records of one (user, class, calendar day)
C1_OneRecordPerDay ==
    \A a, b \in attendance :
        (a.userId = b.userId /\ a.classId = b.classId
           /\ Day(a.createdAt) = Day(b.createdAt)) => a = b

\* C2: a check-in that passes the enrollment and face checks while the
\* ledger, all other requests being finished, already holds a record of
\* (user, class, today) is rejected with DuplicateCheckIn and writes no
\* record, whatever its location evidence and the time are
C2_DuplicateRejected ==
    [][\A r \in Requests :
          (/\ Completes(r)
           /\ pc[r] \notin {"att_create", "rec_create", "rec_log", "ver_create"}
           /\ OthersAtRest(r)
           /\ RecordOfOtherToday(r)
           /\ PassesEnrollmentAndFace(r))
          => (response'[r] \in DuplicateCheckIn /\ attendance' = attendance)]_vars

\* C3: a request whose insert the store rejected for the duplicate key
\* receives the status its endpoint returns when the read finds the record
C3_StoreRejectionIsDuplicate ==
    \A r \in Requests :
        (Done(r) /\ response[r] = handleApiError(UniqueConstraintError, "production"))
          => response[r].status = DuplicateResponse(input[r].endpoint).status

\* C4 as stated: a request rejected by an admission check has written
\* nothing, neither to the ledger nor to any other table
C4_RejectedWritesNothing ==
    \A r \in Requests :
        (Done(r) /\ response[r] \in AdmissionFailures)
          => (RowsOf(r) = {} /\ LogsOf(r) = {})

\* C4 as amended: a request that was not accepted has no record in the
\* ledger, and the only row it has written elsewhere is the
\* faceQualityLog row of a failed face match on the recognition endpoint
C4_RejectedWritesOnlyFailureLog ==
    \A r \in Requests :
        (Done(r) /\ response[r] # Created)
          => /\ RowsOf(r) = {}
             /\ \A l \in LogsOf(r) : response[r] = RecMismatch /\ ~l.success
             /\ Cardinality(LogsOf(r)) <= 1

C4_Witness ==
    \E r \in Requests :
        /\ Done(r) /\ response[r] = RecMismatch /\ LogsOf(r) # {}
        /\ \E q \in Requests : Done(q) /\ response[q] \in LocationRejected
        /\ attendance = {}

\* C5: no record is created for a user whose enrollment in the class is
\* not ACTIVE
C5_NotEnrolledNeverAdmitted ==
    \A r \in Requests :
        (Done(r) /\ ~HasActiveEnrollment) => (response[r] # Created /\ RowsOf(r) = {})

\* C6: a record is created only if the confidence between the submitted
\* and the stored descriptor reaches the threshold of the user's profile
C6_AdmittedOnlyAboveProfileThreshold ==
    \A r \in Requests : RowsOf(r) # {} => FaceMatches(r)

\* C7: no record is created for a user without a face profile
C7_NoProfileNeverAdmitted ==
    \A r \in Requests :
        (Done(r) /\ ~HasFaceProfile) => (response[r] # Created /\ RowsOf(r) = {})

\* C8: the failure reported is that of the earliest failing check in the
\* order enrollment, face profile, face match, duplicate, location,
\* schedule window: a reported failure means every earlier check passed
C8_EarliestFailureReported ==
    \A r \in Requests :
        Done(r) =>
          /\ response[r] \in FaceProfileMissing => HasActiveEnrollment
          /\ response[r] \in FaceMismatch => HasActiveEnrollment /\ HasFaceProfile
          /\ response[r] \in DuplicateCheckIn \cup LocationRejected
                => HasActiveEnrollment /\ FaceMatches(r)
          /\ response[r] \in OutsideCheckInWindow
                => HasActiveEnrollment /\ FaceMatches(r) /\ LocationValid(r)

\* C9: every record of the ledger was created inside the check-in window,
\* not earlier than 15 minutes before the start and not later than the end
C9_AdmittedOnlyInsideWindow ==
    \A a \in attendance :
        /\ RecCurrentTime(a.createdAt) >= RecStartTime - checkInWindow
        /\ RecCurrentTime(a.createdAt) <= RecEndTime

\* C10: a check-in in the 15 minutes before the start that passes every
\* other check is accepted and recorded as PRESENT
C10_EarlyCheckInPresent ==
    [][\A r \in Requests :
          (/\ Completes(r)
           /\ Day(Date) = Day(Class.startTime)
           /\ Class.schedule.dayOfWeek = getDay(Date)
           /\ Date >= Class.startTime - checkInWindow
           /\ Date < Class.startTime
           /\ PassesEnrollmentAndFace(r)
           /\ LocationValid(r)
           /\ ~RecordOfOtherToday(r))
          => /\ response'[r] = Created
             /\ \E a \in attendance' : a.id = r /\ a.status = "PRESENT"]_vars

(* ======================= the claims, C11 to C20 ======================= *)
\* a record created on the day of the class inside the check-in window
InsideWindow(a) ==
    /\ Day(a.createdAt) = Day(Class.startTime)
    /\ a.createdAt >= Class.startTime - checkInWindow
    /\ a.createdAt <= Class.endTime

\* C11: a record created inside the check-in window is PRESENT when it was
\* created at or before start + 15 minutes (the late threshold) and LATE
\* when it was created after that; no other status occurs
C11_StatusByLateThreshold ==
    \A a \in attendance :
        InsideWindow(a) =>
            a.status = (IF a.createdAt <= Class.startTime + AttLateThreshold
                        THEN "PRESENT" ELSE "LATE")

\* C12: no record is created on a day of the week other than the day the
\* class is scheduled on, also at a time of day between start and end
C12_AdmittedOnlyOnScheduledDay ==
    \A a \in attendance :
        (RecCurrentTime(a.createdAt) >= RecStartTime
           /\ RecCurrentTime(a.createdAt) <= RecEndTime)
          => getDay(a.createdAt) = Class.schedule.dayOfWeek

WifiRejections == {AttWifi, RecWifi, VerWifi}
\* the SSIDs an endpoint allows: the allowed set of the class's room for
\* "att" and "ver", the one SSID of the class's location for "rec"
AllowedSsids(ep) ==
    IF ep = "rec" THEN Some({Class.location.wifiSsid}) ELSE Class.room.allowedWifiSSIDs
SsidAllowed(ep, ssid) == AllowedSsids(ep) = Undefined \/ ssid \in AllowedSsids(ep)[1]

CentreLat(ep) == IF ep = "rec" THEN Class.location.gpsLat ELSE Class.room.latitude
CentreLng(ep) == IF ep = "rec" THEN Class.location.gpsLng ELSE Class.room.longitude
Radius(ep) == IF ep = "rec" THEN DefaultRadius ELSE MaxRoomDistance(Class.room)

\* C14: every record that carries coordinates, for a class whose room has
\* a GPS centre, was created within the radius of the centre (50 metres
\* when the radius is unset)
C14_AdmittedOnlyWithinRadius ==
    \A a \in attendance :
        (a.gpsLat # Undefined /\ a.gpsLng # Undefined
           /\ CentreLat(a.endpoint) # Undefined /\ CentreLng(a.endpoint) # Undefined)
          => calculateGPSDistance(a.gpsLat[1], a.gpsLng[1],
                                  CentreLat(a.endpoint)[1], CentreLng(a.endpoint)[1])
               <= Radius(a.endpoint)

LocationCalls == {"validateLocation", "verifyLocation", "recWifi"}
NoEvidence(c) == c.wifiSsid = Undefined /\ c.gpsLat = Undefined /\ c.gpsLng = Undefined
\* the class data the call reads defines neither a WiFi nor a GPS
\* constraint; the location "rec" reads always has an SSID
Unconstrained(c) ==
    /\ c.fn # "recWifi"
    /\ c.classRoom.room.allowedWifiSSIDs = Undefined
    /\ c.classRoom.room.latitude = Undefined
    /\ c.classRoom.room.longitude = Undefined

FaceCheckCalls == {"recFaceCheck", "verFaceCheck"}
LengthMismatch(c) ==
    Len(c.stored) # Len(c.current) \/ Len(c.stored) = 0 \/ Len(c.current) = 0

\* C16: for descriptors of different lengths, or an empty one, the face
\* check fails, and its failure is neither FaceMismatch nor the generic
\* internal error
C16_LengthMismatchIsItsOwnFailure ==
    (calc.fn \in FaceCheckCalls /\ LengthMismatch(calc))
      => /\ calc.result # NoResponse
         /\ calc.result \notin FaceMismatch
         /\ \A env \in Environments : calc.result # handleApiError(LengthError, env)

\* C17: an accepted request has exactly one record in the ledger; the
\* record is of the user and the class and carries PRESENT or LATE, the
\* confidence of the face match, and the SSID and the coordinates of the
\* request
C17_AcceptedRecordIsComplete ==
    \A r \in Requests :
        (Done(r) /\ response[r] = Created)
          => /\ Cardinality(RowsOf(r)) = 1
             /\ \A a \in RowsOf(r) :
                   /\ a.userId = UserId /\ a.classId = ClassId
                   /\ a.status \in {"PRESENT", "LATE"}
                   /\ (a.confidenceScore # Undefined \/ a.faceMatchScore # Undefined)
                   /\ a.wifiSsid = input[r].wifiSsid
                   /\ a.gpsLat = input[r].gpsLat /\ a.gpsLng = input[r].gpsLng

\* the responses to a request whose insert failed for the connection
StoreFailures == { handleApiError(ConnectionError, env) : env \in Environments }
Alone(r) == \A q \in Requests \ {r} : pc[q] = "idle"

\* C18 as stated: a request whose insert failed is answered with the
\* generic text, none of the named failures, and has changed nothing that
\* is persisted: no record, no log row, and the session as it was
C18_StoreFailureChangesNothing ==
    \A r \in Requests :
        (Done(r) /\ response[r] \in StoreFailures)
          => /\ response[r] = Response(500, "Something went wrong")
             /\ response[r] \notin AdmissionFailures
             /\ RowsOf(r) = {} /\ LogsOf(r) = {}
             /\ Alone(r) => session.lastActivity = 0

\* C18 as amended: a request whose insert failed is answered 500, none of
\* the named failures nor the duplicate-key answer, with the generic text
\* unless NODE_ENV is development, and has neither a record in the ledger
\* nor a row in faceQualityLog
C18_StoreFailureLeavesNoRecord ==
    \A r \in Requests :
        (Done(r) /\ response[r] \in StoreFailures)
          => /\ response[r].status = 500
             /\ response[r] \notin AdmissionFailures
             /\ response[r] # handleApiError(UniqueConstraintError, "production")
             /\ response[r].error # "Something went wrong"
                   => response[r] = handleApiError(ConnectionError, "development")
             /\ RowsOf(r) = {} /\ LogsOf(r) = {}

\* the insert of a request to "rec" failed after its authentication had
\* written the session, while the ledger holds the record of another request
C18_Witness ==
    \E r \in Requests :
        /\ Done(r) /\ response[r] = Response(500, "Something went wrong")
        /\ input[r].endpoint = "rec"
        /\ session.lastActivity # 0
        /\ \E a \in attendance : a.id # r

\* C19: every record of the ledger is in the ledger, unchanged, after any
\* step of any check-in, accepted or rejected
C19_RecordsNeverChange ==
    [][\A a \in attendance : a \in attendance']_vars

\* a check-in was accepted on a later day while the ledger held the record
\* of an earlier day, which is still there
C19_Witness ==
    \E a, b \in attendance :
        /\ Day(a.createdAt) < Day(b.createdAt)
        /\ \A r \in Requests : Done(r) /\ response[r] = Created

\* max(0, 1 - d / maxDistance) rounded to 3 decimals, in thousandths, for
\* the distance d whose square is s: 0 when 1 - d < 0.0005, else the c with
\* c - 1/2 <= 1000 - d < c + 1/2
ExpectedConfidence(s) ==
    IF 4 * s > (2 * maxDistance - 1) * (2 * maxDistance - 1) THEN 0
    ELSE CHOOSE c \in 0..maxDistance :
           LET k == maxDistance - c
           IN  /\ (k = 0 \/ (2 * k - 1) * (2 * k - 1) < 4 * s)
               /\ 4 * s <= (2 * k + 1) * (2 * k + 1)

\* the similarity 1 - d of "ver", d held as its square s, is c thousandths
SimilarityIs(s, c) == c <= maxDistance /\ (maxDistance - c) * (maxDistance - c) = s

\* C20: for two descriptors of one length the score of either scorer is
\* max(0, 1 - d / maxDistance) rounded to 3 decimals, a number of [0, 1]
C20_ScoreIsClampedAndRounded ==
    /\ (calc.fn = "calculateFaceConfidence" /\ Len(calc.stored) = Len(calc.current))
         => /\ calc.result = ExpectedConfidence(SumSquares(calc.stored, calc.current, 1))
            /\ calc.result \in 0..maxDistance
    /\ (calc.fn = "calculateDistance" /\ calc.result # Undefined)
         => SimilarityIs(calc.result[1], ExpectedConfidence(calc.result[1]))

(* ------------------------- the face enrollment ------------------------- *)
\* The two enrollment routes of src/unnamed/part_005, each with the table of
\* its schema: "profile" (findFirst by userId, rows without version) and
\* "enroll" (findUnique by userId, rows with version). Two authenticated
\* requests of one route run concurrently.
EnrollEndpoints == {"profile", "enroll"}
Methods == {"POST", "DELETE"}
\* qualityScore in thousandths, below and above the minimum of "enroll"
QualityScores == {500, 900}
MinQualityScore == 700
MaxVersion == 2

ProfileRow(id, version, qualityScore) ==
    [id |-> id, userId |-> UserId, version |-> version, qualityScore |-> qualityScore]

enrollRest == <<clock, uniqueIndex, enrollment, session, attendance, faceQualityLog, now,
                today, calc, sessions, passwordReset, store, rateLimitStore, log>>

EnrollInit ==
    /\ clock = 1
    /\ uniqueIndex = FALSE
    /\ enrollment = "ACTIVE"
    /\ session = [userId |-> UserId, lastActivity |-> 0]
    /\ attendance = {}
    /\ faceQualityLog = {}
    /\ now = [r \in Requests |-> NoInstant]
    /\ today = [r \in Requests |-> NoInstant]
    /\ calc = NoCalc
    /\ sessions = {LiveSession}
    /\ passwordReset = {}
    /\ store = NoEntries
    /\ rateLimitStore = NoEntries
    /\ log = <<>>
    /\ pc = [r \in Requests |-> "idle"]
    /\ response = [r \in Requests |-> NoResponse]
    /\ local = [r \in Requests |-> NoLocal]
    /\ \E ep \in EnrollEndpoints :
          /\ input = [r \in Requests |-> [endpoint |-> ep, method |-> "", qualityScore |-> 0]]
          /\ faceProfile \in {Undefined} \cup
                (IF ep = "enroll"
                 THEN { Some(ProfileRow(0, Some(v), 900)) : v \in 1..MaxVersion }
                 ELSE { Some(ProfileRow(0, Undefined, 900)) })
          /\ user = [status |-> "ACTIVE", password |-> "old",
                     faceEnrollmentStatus |->
                        IF faceProfile = Undefined
                        THEN (IF ep = "enroll" THEN "PENDING" ELSE "NOT_ENROLLED")
                        ELSE (IF ep = "enroll" THEN "COMPLETED" ELSE "ENROLLED"),
                     registrationStep |->
                        IF faceProfile = Undefined THEN "PENDING" ELSE "COMPLETED"]

\* the handler of r goes on to label, keeping in its locals what it found
\* and the response it will return
Await(r, label, existingProfile, result) ==
    /\ pc' = [pc EXCEPT ![r] = label]
    /\ local' = [local EXCEPT ![r] = [existingProfile |-> existingProfile, result |-> result]]
    /\ UNCHANGED response

\* the handler of r returns resp
Respond(r, resp) ==
    /\ pc' = [pc EXCEPT ![r] = "done"]
    /\ local' = [local EXCEPT ![r] = NoLocal]
    /\ response' = [response EXCEPT ![r] = resp]

\* the handler of r throws error, which its catch block hands to
\* handleApiError
Throw(r, error) == \E env \in Environments : Respond(r, handleApiError(error, env))

\* the rows of the table without the row of the given id
Without(rows, id) == SelectSeq(rows, LAMBDA p : p.id # id)

\* the rows of the table with the quality score, and the version if one is
\* given, written to the row of the given id
Updated(rows, id, qualityScore, version) ==
    [i \in DOMAIN rows |->
        IF rows[i].id = id
        THEN [rows[i] EXCEPT !.qualityScore = qualityScore,
                             !.version = IF version = Undefined THEN @ ELSE version]
        ELSE rows[i]]

HasRow(rows, id) == \E i \in DOMAIN rows : rows[i].id = id

\* an authenticated request arrives at the route with a method and a body
EnrollStart(r) ==
    /\ pc[r] = "idle"
    /\ \A q \in Requests : q < r => pc[q] # "idle"
    /\ \E m \in Methods, q \in QualityScores :
          /\ m = "DELETE" => q = 900
          /\ input' = [input EXCEPT ![r] = [@ EXCEPT !.method = m, !.qualityScore = q]]
          /\ pc' = [pc EXCEPT ![r] = input[r].endpoint \o "_" \o m \o "_find"]
    /\ UNCHANGED <<faceProfile, user, local, response, enrollRest>>

(* ---- first POST of src/unnamed/part_005 ---- *)
\* prisma.faceProfile.findFirst({ where: { userId } })
ProfilePostFind(r) ==
    /\ pc[r] = "profile_POST_find"
    /\ Await(r, "profile_POST_write",
             IF faceProfile = <<>> THEN Undefined ELSE Some(faceProfile[1]), NoResponse)
    /\ UNCHANGED <<faceProfile, user, input, enrollRest>>

\* prisma.faceProfile.update({ where: { id } }) of the profile found, or
\* prisma.faceProfile.create
ProfilePostWrite(r) ==
    /\ pc[r] = "profile_POST_write"
    /\ LET existingProfile == local[r].existingProfile
       IN  IF existingProfile # Undefined
           THEN IF HasRow(faceProfile, existingProfile[1].id)
                THEN /\ faceProfile' = Updated(faceProfile, existingProfile[1].id,
                                                    input[r].qualityScore, Undefined)
                     /\ Await(r, "profile_POST_user", existingProfile, Success)
                ELSE /\ Throw(r, RecordNotFoundError)
                     /\ UNCHANGED faceProfile
           ELSE /\ faceProfile' = Append(faceProfile,
                        ProfileRow(r, Undefined, input[r].qualityScore))
                /\ Await(r, "profile_POST_user", existingProfile, Created)
    /\ UNCHANGED <<user, input, enrollRest>>

\* prisma.user.update: faceEnrollmentStatus 'ENROLLED'
ProfilePostUser(r) ==
    /\ pc[r] = "profile_POST_user"
    /\ user' = [user EXCEPT !.faceEnrollmentStatus = "ENROLLED"]
    /\ Await(r, "profile_POST_step", local[r].existingProfile, local[r].result)
    /\ UNCHANGED <<faceProfile, input, enrollRest>>

\* prisma.registrationStep.updateMany: FACE_ENROLLMENT 'COMPLETED'
ProfilePostStep(r) ==
    /\ pc[r] = "profile_POST_step"
    /\ user' = [user EXCEPT !.registrationStep = "COMPLETED"]
    /\ Respond(r, local[r].result)
    /\ UNCHANGED <<faceProfile, input, enrollRest>>

(* ---- first DELETE of src/unnamed/part_005 ---- *)
\* prisma.faceProfile.findFirst
ProfileDeleteFind(r) ==
    /\ pc[r] = "profile_DELETE_find"
    /\ IF faceProfile = <<>>
       THEN Respond(r, NotFound("Face profile not found"))
       ELSE Await(r, "profile_DELETE_write", Some(faceProfile[1]), NoResponse)
    /\ UNCHANGED <<faceProfile, user, input, enrollRest>>

\* prisma.faceProfile.delete({ where: { id } })
ProfileDeleteWrite(r) ==
    /\ pc[r] = "profile_DELETE_write"
    /\ LET id == local[r].existingProfile[1].id
       IN  IF HasRow(faceProfile, id)
           THEN /\ faceProfile' = Without(faceProfile, id)
                /\ Await(r, "profile_DELETE_user", local[r].existingProfile, Success)
           ELSE /\ Throw(r, RecordNotFoundError)
                /\ UNCHANGED faceProfile
    /\ UNCHANGED <<user, input, enrollRest>>

\* prisma.user.update: faceEnrollmentStatus 'NOT_ENROLLED'
ProfileDeleteUser(r) ==
    /\ pc[r] = "profile_DELETE_user"
    /\ user' = [user EXCEPT !.faceEnrollmentStatus = "NOT_ENROLLED"]
    /\ Await(r, "profile_DELETE_step", local[r].existingProfile, local[r].result)
    /\ UNCHANGED <<faceProfile, input, enrollRest>>

\* prisma.registrationStep.updateMany: FACE_ENROLLMENT 'PENDING'
ProfileDeleteStep(r) ==
    /\ pc[r] = "profile_DELETE_step"
    /\ user' = [user EXCEPT !.registrationStep = "PENDING"]
    /\ Respond(r, local[r].result)
    /\ UNCHANGED <<faceProfile, input, enrollRest>>

(* ---- second POST of src/unnamed/part_005 ---- *)
\* the minimum quality score; prisma.faceProfile.findUnique({ where: { userId } })
EnrollPostFind(r) ==
    /\ pc[r] = "enroll_POST_find"
    /\ IF input[r].qualityScore < MinQualityScore
       THEN Respond(r, Response(400, "Face image quality is too low. Please try again with better lighting and clearer image."))
       ELSE Await(r, "enroll_POST_write", faceProfile, NoResponse)
    /\ UNCHANGED <<faceProfile, user, input, enrollRest>>

\* prisma.faceProfile.update({ where: { userId } }) with version
\* existingProfile.version + 1, or prisma.faceProfile.create with version 1;
\* userId is the unique key of findUnique, so the update throws P2025 when
\* the row is gone and the create throws P2002 when a row is there
EnrollPostWrite(r) ==
    /\ pc[r] = "enroll_POST_write"
    /\ LET existingProfile == local[r].existingProfile
       IN  IF existingProfile # Undefined
           THEN IF faceProfile # <<>>
                THEN /\ faceProfile' = Updated(faceProfile, faceProfile[1].id,
                                                    input[r].qualityScore,
                                                    Some(existingProfile[1].version[1] + 1))
                     /\ Await(r, "enroll_POST_user", existingProfile, Success)
                ELSE /\ Throw(r, RecordNotFoundError)
                     /\ UNCHANGED faceProfile
           ELSE IF faceProfile # <<>>
                THEN /\ Throw(r, UniqueConstraintError)
                     /\ UNCHANGED faceProfile
                ELSE /\ faceProfile' = <<ProfileRow(r, Some(1), input[r].qualityScore)>>
                     /\ Await(r, "enroll_POST_user", existingProfile, Success)
    /\ UNCHANGED <<user, input, enrollRest>>

\* prisma.user.update: faceEnrollmentStatus 'COMPLETED'
EnrollPostUser(r) ==
    /\ pc[r] = "enroll_POST_user"
    /\ user' = [user EXCEPT !.faceEnrollmentStatus = "COMPLETED"]
    /\ Respond(r, local[r].result)
    /\ UNCHANGED <<faceProfile, input, enrollRest>>

(* ---- second DELETE of src/unnamed/part_005 ---- *)
\* prisma.faceProfile.findUnique
EnrollDeleteFind(r) ==
    /\ pc[r] = "enroll_DELETE_find"
    /\ IF faceProfile = <<>>
       THEN Respond(r, NotFound("Face profile not found"))
       ELSE Await(r, "enroll_DELETE_write", faceProfile, NoResponse)
    /\ UNCHANGED <<faceProfile, user, input, enrollRest>>

\* prisma.faceProfile.delete({ where: { userId } })
EnrollDeleteWrite(r) ==
    /\ pc[r] = "enroll_DELETE_write"
    /\ IF faceProfile # <<>>
       THEN /\ faceProfile' = <<>>
            /\ Await(r, "enroll_DELETE_user", local[r].existingProfile, Success)
       ELSE /\ Throw(r, RecordNotFoundError)
            /\ UNCHANGED faceProfile
    /\ UNCHANGED <<user, input, enrollRest>>

\* prisma.user.update: faceEnrollmentStatus 'PENDING'
EnrollDeleteUser(r) ==
    /\ pc[r] = "enroll_DELETE_user"
    /\ user' = [user EXCEPT !.faceEnrollmentStatus = "PENDING"]
    /\ Respond(r, local[r].result)
    /\ UNCHANGED <<faceProfile, input, enrollRest>>

EnrollNext ==
    \/ \E r \in Requests : EnrollStart(r)
    \/ \E r \in Requests : ProfilePostFind(r)
    \/ \E r \in Requests : ProfilePostWrite(r)
    \/ \E r \in Requests : ProfilePostUser(r)
    \/ \E r \in Requests : ProfilePostStep(r)
    \/ \E r \in Requests : ProfileDeleteFind(r)
    \/ \E r \in Requests : ProfileDeleteWrite(r)
    \/ \E r \in Requests : ProfileDeleteUser(r)
    \/ \E r \in Requests : ProfileDeleteStep(r)
    \/ \E r \in Requests : EnrollPostFind(r)
    \/ \E r \in Requests : EnrollPostWrite(r)
    \/ \E r \in Requests : EnrollPostUser(r)
    \/ \E r \in Requests : EnrollDeleteFind(r)
    \/ \E r \in Requests : EnrollDeleteWrite(r)
    \/ \E r \in Requests : EnrollDeleteUser(r)

EnrollSpec == EnrollInit /\ [][EnrollNext]_vars

(* --------------------------- authentication --------------------------- *)
\* Two concurrent requests, each to the check-in route "att", to the logout
\* route or to the reset-password route. The middleware of
\* src/unnamed/part_008 runs before the handlers of the first two; the
\* reset-password route is one of its public routes.
AuthEndpoints == {"att", "logout", "reset"}

\* the bearer tokens: none, one that jwt.verify rejects (malformed, wrongly
\* signed or expired), and valid ones bound to the session that never was
\* ("s0"), to the session "s1" and to the session "s2", which expires early
Bearer(sessionId) == Some([valid |-> TRUE, sessionId |-> sessionId])
Tokens == {Undefined, Some([valid |-> FALSE, sessionId |-> ""]),
           Bearer("s0"), Bearer("s1"), Bearer("s2")}

\* the user's sessions at the start: "s1" lives on, "s2" expires at the
\* second instant
EarlySession == [LiveSession EXCEPT !.id = "s2", !.expiresAt = AllInstants[2]]
AuthSessions == {LiveSession, EarlySession}

\* the passwordReset rows at the start: "t1" stays valid, "t2" expires at
\* the second instant, "t3" is used; "t0" is the token of no row
ResetRow(token, used, expiresAt) ==
    [id |-> token, token |-> token, used |-> used, expiresAt |-> expiresAt]
ResetRows == { ResetRow("t1", FALSE, AllInstants[Len(AllInstants)] + 1),
               ResetRow("t2", FALSE, AllInstants[2]),
               ResetRow("t3", TRUE, AllInstants[Len(AllInstants)] + 1) }
ResetTokens == {"t0", "t1", "t2", "t3"}

\* the body of a check-in the att handler accepts when the class is on
AuthBody == [faceDescriptors |-> <<100, 500>>, wifiSsid |-> Some("CAMPUS"),
             gpsLat |-> Undefined, gpsLng |-> Undefined]

authRest == <<clock, db, session, attendance, faceQualityLog, now, today, calc, store,
              rateLimitStore, log>>

AuthInit ==
    /\ clock = 1
    /\ uniqueIndex = TRUE
    /\ enrollment = "ACTIVE"
    /\ faceProfile = Undefined
    /\ session = [userId |-> UserId, lastActivity |-> 0]
    /\ attendance = {}
    /\ faceQualityLog = {}
    /\ pc = [r \in Requests |-> "idle"]
    /\ input = [r \in Requests |-> NoInput]
    /\ now = [r \in Requests |-> NoInstant]
    /\ today = [r \in Requests |-> NoInstant]
    /\ response = [r \in Requests |-> NoResponse]
    /\ calc = NoCalc
    /\ user \in {ActiveUser, [ActiveUser EXCEPT !.status = "SUSPENDED"]}
    /\ sessions = AuthSessions
    /\ passwordReset = ResetRows
    /\ local = [r \in Requests |-> NoLocal]
    /\ store = NoEntries
    /\ rateLimitStore = NoEntries
    /\ log = <<>>

\* the handler of r goes on to label with the locals l
Hold(r, label, l) ==
    /\ pc' = [pc EXCEPT ![r] = label]
    /\ local' = [local EXCEPT ![r] = l]
    /\ UNCHANGED response

\* prisma.session.findUnique({ where: { id } }), as an optional row
FindSession(id) == IF \E s \in sessions : s.id = id
                   THEN Some(CHOOSE s \in sessions : s.id = id)
                   ELSE Undefined

\* prisma.session.update({ where: { id }, data: { lastActivity } })
TouchSession(id) ==
    sessions' = { IF s.id = id THEN [s EXCEPT !.lastActivity = Date] ELSE s : s \in sessions }

\* a request arrives with its bearer token and body
AuthStart(r) ==
    /\ pc[r] = "idle"
    /\ \A q \in Requests : q < r => pc[q] # "idle"
    /\ \E ep \in AuthEndpoints, tk \in Tokens, rt \in ResetTokens :
          /\ ep = "reset" => tk = Undefined
          /\ ep # "reset" => rt = "t0"
          /\ input' = [input EXCEPT ![r] =
                [endpoint |-> ep, faceDescriptors |-> AuthBody.faceDescriptors,
                 wifiSsid |-> AuthBody.wifiSsid, gpsLat |-> AuthBody.gpsLat,
                 gpsLng |-> AuthBody.gpsLng, authorization |-> tk, token |-> rt,
                 password |-> IF r = 1 THEN "new1" ELSE "new2"]]
          /\ pc' = [pc EXCEPT ![r] = IF ep = "reset" THEN "reset_find" ELSE "middleware"]
    /\ UNCHANGED <<user, sessions, passwordReset, local, response, authRest>>

(* ---- middleware of src/unnamed/part_008 ---- *)
\* the token is read and verified; AuthService.validateSession finds the
\* session
Middleware(r) ==
    /\ pc[r] = "middleware"
    /\ LET token == input[r].authorization
       IN  IF token = Undefined
           THEN Respond(r, Response(401, "Authentication required"))
           ELSE IF ~token[1].valid
           THEN Respond(r, Response(401, "Invalid or expired token"))
           ELSE LET found == FindSession(token[1].sessionId)
                IN  IF found = Undefined \/ found[1].expiresAt < Date
                    THEN Respond(r, Response(401, "Session expired"))
                    ELSE Hold(r, "middleware_touch", NoLocal)
    /\ UNCHANGED <<user, sessions, passwordReset, input, authRest>>

\* validateSession updates lastActivity; the error of an update without its
\* row is caught by the middleware
MiddlewareTouch(r) ==
    /\ pc[r] = "middleware_touch"
    /\ LET id == input[r].authorization[1].sessionId
       IN  IF FindSession(id) = Undefined
           THEN /\ Respond(r, Response(401, "Invalid or expired token"))
                /\ UNCHANGED sessions
           ELSE /\ TouchSession(id)
                /\ Hold(r, IF input[r].endpoint = "att" THEN "auth_find" ELSE "logout", NoLocal)
    /\ UNCHANGED <<user, passwordReset, input, authRest>>

(* ---- requireAuth and getUserFromToken of src/lib/auth.ts ---- *)
\* getUserFromToken finds the session with its user; requireAuth throws
\* for no token and for no user
AuthFind(r) ==
    /\ pc[r] = "auth_find"
    /\ LET token == input[r].authorization
       IN  IF token = Undefined
           THEN Throw(r, NoTokenError)
           ELSE IF ~token[1].valid
           THEN Throw(r, InvalidTokenError)
           ELSE LET found == FindSession(token[1].sessionId)
                IN  IF found = Undefined \/ found[1].expiresAt < Date
                       \/ user.status # "ACTIVE"
                    THEN Throw(r, InvalidTokenError)
                    ELSE Hold(r, "auth_touch", NoLocal)
    /\ UNCHANGED <<user, sessions, passwordReset, input, authRest>>

\* an update of lastActivity that succeeds without its row
AuthTouchOfAnyRow(r) ==
    /\ pc[r] = "auth_touch"
    /\ TouchSession(input[r].authorization[1].sessionId)
    /\ pc' = [pc EXCEPT ![r] = FirstStep("att")]
    /\ UNCHANGED <<local, response>>
    /\ UNCHANGED <<user, passwordReset, input, authRest>>

\* getUserFromToken updates lastActivity and returns the user; the error of
\* an update without its row is caught and makes it return null, for which
\* requireAuth throws; the user is a STUDENT, the role the route allows
AuthTouch(r) ==
    /\ pc[r] = "auth_touch"
    /\ LET id == input[r].authorization[1].sessionId
       IN  IF FindSession(id) = Undefined
           THEN /\ Throw(r, InvalidTokenError)
                /\ UNCHANGED sessions
           ELSE /\ TouchSession(id)
                /\ pc' = [pc EXCEPT ![r] = FirstStep("att")]
                /\ UNCHANGED <<local, response>>
    /\ UNCHANGED <<user, passwordReset, input, authRest>>

(* ---- POST of src/app/api/auth/logout/route.ts ---- *)
\* the token is read and verified; AuthService.revokeSession deletes the
\* session, and the error of a delete without its row is caught
LogoutPost(r) ==
    /\ pc[r] = "logout"
    /\ LET token == input[r].authorization
       IN  IF token = Undefined
           THEN /\ Respond(r, Response(401, "No authentication token provided"))
                /\ UNCHANGED sessions
           ELSE IF ~token[1].valid
           THEN /\ Respond(r, Response(401, "Invalid token"))
                /\ UNCHANGED sessions
           ELSE /\ sessions' = {s \in sessions : s.id # token[1].sessionId}
                /\ Respond(r, Success)
    /\ UNCHANGED <<user, passwordReset, input, authRest>>

(* ---- POST of src/app/api/auth/reset-password/route.ts ---- *)
\* prisma.passwordReset.findUnique({ where: { token } }) and the checks of
\* the row
ResetFind(r) ==
    /\ pc[r] = "reset_find"
    /\ IF \A t \in passwordReset : t.token # input[r].token
       THEN Respond(r, Response(400, "Invalid reset token"))
       ELSE LET resetRecord == CHOOSE t \in passwordReset : t.token = input[r].token
            IN  IF resetRecord.used
                THEN Respond(r, Response(400, "Reset token has already been used"))
                ELSE IF resetRecord.expiresAt < Date
                THEN Hold(r, "reset_expired", [resetRecord |-> resetRecord])
                ELSE Hold(r, "reset_user", [resetRecord |-> resetRecord])
    /\ UNCHANGED <<user, sessions, passwordReset, input, authRest>>

\* prisma.passwordReset.delete of the expired token
ResetExpired(r) ==
    /\ pc[r] = "reset_expired"
    /\ IF local[r].resetRecord.id \in {t.id : t \in passwordReset}
       THEN /\ passwordReset' = {t \in passwordReset : t.id # local[r].resetRecord.id}
            /\ Respond(r, Response(400, "Reset token has expired"))
       ELSE /\ Throw(r, RecordNotFoundError)
            /\ UNCHANGED passwordReset
    /\ UNCHANGED <<user, sessions, input, authRest>>

\* AuthService.hashPassword; prisma.user.update of the password
ResetUser(r) ==
    /\ pc[r] = "reset_user"
    /\ user' = [user EXCEPT !.password = input[r].password]
    /\ Hold(r, "reset_mark", local[r])
    /\ UNCHANGED <<sessions, passwordReset, input, authRest>>

\* prisma.passwordReset.update({ where: { id }, data: { used: true } })
ResetMark(r) ==
    /\ pc[r] = "reset_mark"
    /\ passwordReset' = { IF t.id = local[r].resetRecord.id THEN [t EXCEPT !.used = TRUE] ELSE t
                          : t \in passwordReset }
    /\ Hold(r, "reset_revoke", local[r])
    /\ UNCHANGED <<user, sessions, input, authRest>>

\* AuthService.revokeAllUserSessions: prisma.session.deleteMany
ResetRevoke(r) ==
    /\ pc[r] = "reset_revoke"
    /\ sessions' = {s \in sessions : s.userId # UserId}
    /\ Respond(r, Success)
    /\ UNCHANGED <<user, passwordReset, input, authRest>>

AuthNext ==
    \/ Tick
    \/ \E r \in Requests : AuthStart(r)
    \/ \E r \in Requests : Middleware(r)
    \/ \E r \in Requests : MiddlewareTouch(r)
    \/ \E r \in Requests : AuthFind(r)
    \/ \E r \in Requests : AuthTouch(r)
    \/ \E r \in Requests : AttClass(r)
    \/ \E r \in Requests : AttDup(r)
    \/ \E r \in Requests : AttLoc(r)
    \/ \E r \in Requests : AttCreate(r)
    \/ \E r \in Requests : LogoutPost(r)
    \/ \E r \in Requests : ResetFind(r)
    \/ \E r \in Requests : ResetExpired(r)
    \/ \E r \in Requests : ResetUser(r)
    \/ \E r \in Requests : ResetMark(r)
    \/ \E r \in Requests : ResetRevoke(r)

AuthSpec == AuthInit /\ [][AuthNext]_vars

(* ---------------------------- rate limiting ---------------------------- *)
\* The two in-memory rate limiters of src/lib/store.ts, called in any order
\* as the clock advances; times are in minutes. The limiters share nothing, so
\* a behaviour calls one of them.
MaxCalls == 4
\* client keys
Identifiers == {"ip1", "ip2"}
\* configurations of the kind of emailRateLimit (3 calls an hour), with
\* windows of the length of the steps of the clock
RateLimitConfigs == { [maxRequests |-> 2, windowMs |-> 15],
                      [maxRequests |-> 3, windowMs |-> 60] }

\* the entry of a key, as an optional value
Entry(st, key) == IF key \in DOMAIN st THEN Some(st[key]) ELSE Undefined

\* the store with the entry of key set to e
WithEntry(st, key, e) == [k \in DOMAIN st \cup {key} |-> IF k = key THEN e ELSE st[k]]

\* the store without the entries of the given keys
Cleaned(st, keys) == [k \in DOMAIN st \ keys |-> st[k]]

Result(success, remaining, resetTime) ==
    [success |-> success, remaining |-> remaining, resetTime |-> resetTime]

\* a limiter that denies only above maxRequests
limitAboveMax(st, identifier, maxRequests, windowMs, t) ==
    LET cleaned == Cleaned(st, {k \in DOMAIN st : st[k].resetTime < t})
    IN  IF identifier \notin DOMAIN cleaned
        THEN [store |-> WithEntry(cleaned, identifier, [count |-> 1, resetTime |-> t + windowMs]),
              result |-> Result(TRUE, maxRequests - 1, t + windowMs)]
        ELSE LET entry == cleaned[identifier]
             IN  IF entry.count > maxRequests
                 THEN [store |-> cleaned, result |-> Result(FALSE, 0, entry.resetTime)]
                 ELSE [store |-> WithEntry(cleaned, identifier,
                                           [entry EXCEPT !.count = entry.count + 1]),
                       result |-> Result(TRUE, maxRequests - (entry.count + 1),
                                         entry.resetTime)]

\* InMemoryRateLimit.limit at time t: the store it leaves and its result
limit(st, identifier, maxRequests, windowMs, t) ==
    LET cleaned == Cleaned(st, {k \in DOMAIN st : st[k].resetTime < t})
    IN  IF identifier \notin DOMAIN cleaned
        THEN [store |-> WithEntry(cleaned, identifier, [count |-> 1, resetTime |-> t + windowMs]),
              result |-> Result(TRUE, maxRequests - 1, t + windowMs)]
        ELSE LET entry == cleaned[identifier]
             IN  IF entry.resetTime < t
                 THEN [store |-> WithEntry(cleaned, identifier,
                                           [count |-> 1, resetTime |-> t + windowMs]),
                       result |-> Result(TRUE, maxRequests - 1, t + windowMs)]
                 ELSE IF entry.count >= maxRequests
                 THEN [store |-> cleaned, result |-> Result(FALSE, 0, entry.resetTime)]
                 ELSE [store |-> WithEntry(cleaned, identifier,
                                           [entry EXCEPT !.count = entry.count + 1]),
                       result |-> Result(TRUE, maxRequests - (entry.count + 1),
                                         entry.resetTime)]

\* rateLimit of the Map rateLimitStore at time t, for the key of the
\* client's address and a configuration with limit and window
rateLimit(st, key, config, t) ==
    LET current == Entry(st, key)
    IN  IF current = Undefined \/ t > current[1].resetTime
        THEN [store |-> WithEntry(st, key, [count |-> 1, resetTime |-> t + config.windowMs]),
              result |-> Result(TRUE, config.maxRequests - 1, t + config.windowMs)]
        ELSE IF current[1].count >= config.maxRequests
        THEN [store |-> st, result |-> Result(FALSE, 0, current[1].resetTime)]
        ELSE [store |-> WithEntry(st, key, [current[1] EXCEPT !.count = current[1].count + 1]),
              result |-> Result(TRUE, config.maxRequests - (current[1].count + 1),
                                current[1].resetTime)]

\* the record of a call in the log
Call(impl, key, config, before, out) ==
    [impl |-> impl, key |-> key, at |-> Date, maxRequests |-> config.maxRequests,
     success |-> out.result.success, remaining |-> out.result.remaining,
     resetTime |-> out.result.resetTime,
     before |-> Entry(before, key), after |-> Entry(out.store, key)]

rateRest == <<db, session, attendance, faceQualityLog, pc, input, now, today, response, calc,
              user, sessions, passwordReset, local>>

RateInit ==
    /\ clock = 1
    /\ uniqueIndex = FALSE
    /\ enrollment = "ACTIVE"
    /\ faceProfile = Undefined
    /\ session = [userId |-> UserId, lastActivity |-> 0]
    /\ attendance = {}
    /\ faceQualityLog = {}
    /\ pc = [r \in Requests |-> "idle"]
    /\ input = [r \in Requests |-> NoInput]
    /\ now = [r \in Requests |-> NoInstant]
    /\ today = [r \in Requests |-> NoInstant]
    /\ response = [r \in Requests |-> NoResponse]
    /\ calc = NoCalc
    /\ user = ActiveUser
    /\ sessions = {LiveSession}
    /\ passwordReset = {}
    /\ local = [r \in Requests |-> NoLocal]
    /\ store = NoEntries
    /\ rateLimitStore = NoEntries
    /\ log = <<>>

\* rateLimiter.limit is called for a key and a configuration
CallLimit ==
    /\ Len(log) < MaxCalls
    /\ \A i \in DOMAIN log : log[i].impl = "limit"
    /\ \E key \in Identifiers, config \in RateLimitConfigs :
          LET out == limit(store, key, config.maxRequests, config.windowMs, Date)
          IN  /\ store' = out.store
              /\ log' = Append(log, Call("limit", key, config, store, out))
    /\ UNCHANGED <<clock, rateLimitStore, rateRest>>

\* rateLimit of the Map is called for a key and a configuration
CallRateLimit ==
    /\ Len(log) < MaxCalls
    /\ \A i \in DOMAIN log : log[i].impl = "rateLimit"
    /\ \E key \in Identifiers, config \in RateLimitConfigs :
          LET out == rateLimit(rateLimitStore, key, config, Date)
          IN  /\ rateLimitStore' = out.store
              /\ log' = Append(log, Call("rateLimit", key, config, rateLimitStore, out))
    /\ UNCHANGED <<clock, store, rateRest>>

\* the setInterval callback deletes the expired entries of the Map
CleanUp ==
    /\ rateLimitStore' = Cleaned(rateLimitStore,
                                 {k \in DOMAIN rateLimitStore : Date > rateLimitStore[k].resetTime})
    /\ rateLimitStore' # rateLimitStore
    /\ UNCHANGED <<clock, store, log, rateRest>>

RateNext ==
    \/ Tick
    \/ CallLimit
    \/ CallRateLimit
    \/ CleanUp

RateSpec == RateInit /\ [][RateNext]_vars

(* ---------------------------- admin approval --------------------------- *)
\* Two concurrent requests of an authenticated admin to
\* src/app/api/admin/approve-user/route.ts: POST for one user, PUT for a
\* list of users. A write of the PUT transaction is taken as visible when it
\* is made.
Nobody == "nobody"
ApprovalActions == {"APPROVE", "REJECT"}
UserStatuses == {"PENDING", "ACTIVE", "REJECTED", "SUSPENDED"}
\* the lists of a PUT: one user, the same user twice, an unknown user first
UserIdLists == {<<UserId>>, <<UserId, UserId>>, <<Nobody, UserId>>}

\* prisma.user.findUnique({ where: { id } }), as an optional row
FindUser(id) == IF id = UserId THEN Some(user) ELSE Undefined

\* the status an action gives
Decided(action) == IF action = "APPROVE" THEN "ACTIVE" ELSE "REJECTED"

StepResult(userId, status, message) == [userId |-> userId, status |-> status, message |-> message]

approveRest == <<clock, db, session, attendance, faceQualityLog, now, today, calc, sessions,
                 passwordReset, store, rateLimitStore, log>>

ApproveInit ==
    /\ clock = 1
    /\ uniqueIndex = FALSE
    /\ enrollment = "ACTIVE"
    /\ faceProfile = Undefined
    /\ session = [userId |-> UserId, lastActivity |-> 0]
    /\ attendance = {}
    /\ faceQualityLog = {}
    /\ pc = [r \in Requests |-> "idle"]
    /\ input = [r \in Requests |-> NoInput]
    /\ now = [r \in Requests |-> NoInstant]
    /\ today = [r \in Requests |-> NoInstant]
    /\ response = [r \in Requests |-> NoResponse]
    /\ calc = NoCalc
    /\ user \in { [ActiveUser EXCEPT !.status = st] : st \in UserStatuses }
    /\ sessions = {LiveSession}
    /\ passwordReset = {}
    /\ local = [r \in Requests |-> NoLocal]
    /\ store = NoEntries
    /\ rateLimitStore = NoEntries
    /\ log = <<>>

\* a request of the admin arrives: POST with a userId, or PUT with userIds
ApproveStart(r) ==
    /\ pc[r] = "idle"
    /\ \A q \in Requests : q < r => pc[q] # "idle"
    /\ \E m \in {"POST", "PUT"}, action \in ApprovalActions,
          userIds \in UserIdLists \cup {<<Nobody>>} :
          /\ m = "PUT" => userIds \in UserIdLists
          /\ m = "POST" => Len(userIds) = 1
          /\ input' = [input EXCEPT ![r] =
                [endpoint |-> "approve-user", method |-> m, action |-> action,
                 userIds |-> userIds]]
          /\ Hold(r, IF m = "POST" THEN "approve_find" ELSE "bulk_find",
                  [i |-> 1, results |-> <<>>])
    /\ UNCHANGED <<user, approveRest>>

(* ---- POST ---- *)
\* prisma.user.findUnique and the checks of the user
ApproveFind(r) ==
    /\ pc[r] = "approve_find"
    /\ LET found == FindUser(input[r].userIds[1])
       IN  IF found = Undefined
           THEN Respond(r, NotFound("User not found"))
           ELSE IF found[1].status # "PENDING"
           THEN Respond(r, Response(400, "User status is already " \o found[1].status))
           ELSE Hold(r, "approve_update", local[r])
    /\ UNCHANGED <<user, input, approveRest>>

\* prisma.user.update of the status
ApproveUpdate(r) ==
    /\ pc[r] = "approve_update"
    /\ user' = [user EXCEPT !.status = Decided(input[r].action)]
    /\ Respond(r, Success)
    /\ UNCHANGED <<input, approveRest>>

(* ---- PUT: processBulkApproval ---- *)
\* the results are returned when the list is done; else tx.user.findUnique
\* and the checks of the next user of the list
BulkFind(r) ==
    /\ pc[r] = "bulk_find"
    /\ LET i == local[r].i
           results == local[r].results
       IN  IF i > Len(input[r].userIds)
           THEN /\ pc' = [pc EXCEPT ![r] = "done"]
                /\ response' = [response EXCEPT ![r] = Success]
                /\ local' = [local EXCEPT ![r] = [i |-> i, results |-> results]]
           ELSE LET userId == input[r].userIds[i]
                    found == FindUser(userId)
                IN  IF found = Undefined
                    THEN Hold(r, "bulk_find",
                              [i |-> i + 1,
                               results |-> Append(results,
                                   StepResult(userId, "error", "User not found"))])
                    ELSE IF found[1].status # "PENDING"
                    THEN Hold(r, "bulk_find",
                              [i |-> i + 1,
                               results |-> Append(results,
                                   StepResult(userId, "error",
                                       "User status is already " \o found[1].status))])
                    ELSE Hold(r, "bulk_update", local[r])
    /\ UNCHANGED <<user, input, approveRest>>

\* tx.user.update of the status
BulkUpdate(r) ==
    /\ pc[r] = "bulk_update"
    /\ user' = [user EXCEPT !.status = Decided(input[r].action)]
    /\ Hold(r, "bulk_find",
            [i |-> local[r].i + 1,
             results |-> Append(local[r].results,
                 StepResult(input[r].userIds[local[r].i], "success", "User decided successfully"))])
    /\ UNCHANGED <<input, approveRest>>

ApproveNext ==
    \/ \E r \in Requests : ApproveStart(r)
    \/ \E r \in Requests : ApproveFind(r)
    \/ \E r \in Requests : ApproveUpdate(r)
    \/ \E r \in Requests : BulkFind(r)
    \/ \E r \in Requests : BulkUpdate(r)

ApproveSpec == ApproveInit /\ [][ApproveNext]_vars

(* ======================= the claims, C21 to C30 ======================= *)
\* C21: a descriptor scored against itself has confidence 1 (distance 0),
\* and the face check of both face endpoints passes it under every
\* profile threshold of [0, 1]
C21_SelfMatchIsMaximal ==
    (calc.stored = calc.current) =>
        /\ calc.fn = "calculateFaceConfidence" => calc.result = maxDistance
        /\ calc.fn = "calculateDistance" => calc.result = Some(0)
        /\ calc.fn \in FaceCheckCalls => calc.result = NoResponse

\* the enrolled descriptor was submitted for a profile with threshold 1 and
\* passed the face check of "rec"
C21_Witness ==
    /\ calc.fn = "recFaceCheck" /\ calc.stored = calc.current /\ Len(calc.stored) > 0
    /\ calc.threshold = maxDistance /\ calc.result = NoResponse

\* the two submitted descriptors of a pair have the length of the stored
\* one, and the first is not farther from it than the second
FirstIsCloser ==
    /\ Len(calc.current) = Len(calc.stored) /\ Len(calc.current2) = Len(calc.stored)
    /\ SumSquares(calc.stored, calc.current, 1) <= SumSquares(calc.stored, calc.current2, 1)

\* C22: of two submitted descriptors of the stored length, the one that is
\* not farther from the stored descriptor has a confidence that is not
\* lower ("rec"), and passes the face check of "ver" when the other passes
C22_ConfidenceFallsWithDistance ==
    FirstIsCloser =>
        /\ calc.fn = "calculateFaceConfidencePair" => calc.result >= calc.result2
        /\ calc.fn = "verFaceCheckPair" =>
              (calc.result2 = NoResponse => calc.result = NoResponse)

\* the scorer gave a strictly higher confidence to the strictly closer of
\* two descriptors, the farther one being at more than the maximum distance
C22_Witness ==
    /\ calc.fn = "calculateFaceConfidencePair" /\ FirstIsCloser
    /\ SumSquares(calc.stored, calc.current, 1) > 0
    /\ SumSquares(calc.stored, calc.current2, 1) > maxDistance * maxDistance
    /\ calc.result > calc.result2 /\ calc.result < maxDistance

GPSDistanceCalls == {"calculateGPSDistance", "attCalculateDistance"}

Version == IF faceProfile = <<>> THEN 0 ELSE faceProfile[1].version[1]

\* the enrollment request r stores its profile in this step
Enrolls(r) == pc[r] = "enroll_POST_write" /\ pc'[r] = "enroll_POST_user"

\* C24: every successful enrollment makes the version one more than it was
\* (1 for the first enrollment), so the version counts the successful
\* enrollments
C24_EachEnrollmentAddsOne ==
    [][\A r \in Requests : Enrolls(r) => Version' = Version + 1]_vars

\* C25: the user has at most one face profile, and every face profile is
\* the user's
C25_OneProfilePerUser ==
    /\ Len(faceProfile) <= 1
    /\ \A i \in DOMAIN faceProfile : faceProfile[i].userId = UserId

\* the steps in which the middleware and requireAuth decide on a request
AuthSteps == {"middleware", "middleware_touch", "auth_find", "auth_touch"}

\* the request carries no token, an invalid or expired one, or one bound to a
\* session that is missing or has expired
Unauthenticated(r) ==
    LET token == input[r].authorization
    IN  \/ token = Undefined
        \/ ~token[1].valid
        \/ FindSession(token[1].sessionId) = Undefined
        \/ FindSession(token[1].sessionId)[1].expiresAt < Date

\* C26: a check-in request without a token, or with a token that is invalid,
\* expired or bound to a missing or expired session, is answered 401 at the
\* step that meets it, and stores no attendance record
C26_UnauthenticatedIs401 ==
    [][\A r \in Requests :
          (/\ input[r].endpoint = "att" /\ pc[r] \in AuthSteps /\ pc'[r] # pc[r]
           /\ Unauthenticated(r))
          => /\ pc'[r] = "done" /\ response'[r].status = 401
             /\ attendance' = attendance]_vars

\* requireAuth returns the user to the handler of r in this step
Authenticates(r) == pc[r] = "auth_touch" /\ pc'[r] = FirstStep("att")

\* the session the token of r was issued for
IssuedSession(r) == CHOOSE s \in AuthSessions : s.id = input[r].authorization[1].sessionId

\* C27: requireAuth authenticates a request only while the session of its
\* token is in the session table (so never after logout or a password reset
\* deleted it), has not expired, and the user is ACTIVE; an attendance record
\* is stored only for a request with a valid token of an unexpired session
\* of an ACTIVE user
C27_DeletedSessionNeverAuthenticates ==
    [][\A r \in Requests :
          /\ Authenticates(r) =>
                /\ input[r].authorization # Undefined /\ input[r].authorization[1].valid
                /\ FindSession(input[r].authorization[1].sessionId) # Undefined
                /\ FindSession(input[r].authorization[1].sessionId)[1].expiresAt >= Date
                /\ user.status = "ACTIVE"
          /\ (\E a \in attendance' \ attendance : a.id = r) =>
                /\ input[r].authorization # Undefined /\ input[r].authorization[1].valid
                /\ \E s \in AuthSessions : s.id = input[r].authorization[1].sessionId
                /\ IssuedSession(r).expiresAt >= Date
                /\ user.status = "ACTIVE"]_vars

\* a logout deleted the session "s1" after a check-in bearing its token had
\* passed the middleware; requireAuth refused the check-in, which stored no
\* record
C27_Witness ==
    \E r \in Requests, q \in Requests :
        /\ input[q].endpoint = "logout" /\ response[q] = Success
        /\ input[q].authorization = Bearer("s1")
        /\ input[r].endpoint = "att" /\ input[r].authorization = Bearer("s1")
        /\ pc[r] = "done" /\ response[r] = handleApiError(InvalidTokenError, "production")
        /\ user.status = "ACTIVE" /\ attendance = {}
        /\ \A s \in sessions : s.id # "s1"

\* the reset request r was answered as successful
ResetSucceeded(r) == input[r].endpoint = "reset" /\ response[r] = Success

\* C28: of the reset requests with one token at most one succeeds, and the
\* password is the one of that request; a token that has expired changes
\* no password
C28_ResetTokenUsedOnce ==
    /\ \A r \in Requests, q \in Requests :
          (r # q /\ input[r].endpoint = "reset" /\ input[q].endpoint = "reset"
           /\ input[r].token = input[q].token /\ ResetSucceeded(r))
          => /\ ~ResetSucceeded(q)
             /\ (pc[q] = "done" => user.password = input[r].password)
    /\ \A r \in Requests :
          (input[r].endpoint = "reset" /\ pc[r] \in {"reset_mark", "reset_revoke"})
          => local[r].resetRecord.expiresAt >= Date

\* the calls of the log that were made to the limiter and key of call c
\* within the window c belongs to
SameWindow(c) ==
    { i \in DOMAIN log : /\ log[i].impl = c.impl /\ log[i].key = c.key
                         /\ log[i].resetTime = c.resetTime }

\* C29: for each key of each limiter, the calls made up to the reset time of
\* a window belong to that window, at most maxRequests of the calls of a
\* window made with that maxRequests succeed, a denied call leaves the
\* entry of the key as it was and reports remaining 0, and no call reports
\* a negative remaining
C29_AtMostMaxRequestsPerWindow ==
    /\ \A i \in DOMAIN log, j \in DOMAIN log :
          (i < j /\ log[i].impl = log[j].impl /\ log[i].key = log[j].key
           /\ log[j].at <= log[i].resetTime) => log[j].resetTime = log[i].resetTime
    /\ \A i \in DOMAIN log :
          /\ Cardinality({ j \in SameWindow(log[i]) :
                             log[j].success /\ log[j].maxRequests = log[i].maxRequests })
                <= log[i].maxRequests
          /\ log[i].at <= log[i].resetTime
          /\ log[i].remaining >= 0
          /\ ~log[i].success => (log[i].remaining = 0 /\ log[i].after = log[i].before)

\* a key used up the two calls of its window, was denied the third at the
\* reset time of the window, and succeeded again after it
C29_Witness ==
    /\ Len(log) = 4
    /\ \A i \in DOMAIN log : log[i].impl = "limit" /\ log[i].key = "ip1"
                             /\ log[i].maxRequests = 2
    /\ log[1].success /\ log[2].success /\ ~log[3].success /\ log[4].success
    /\ log[3].at = log[1].resetTime
    /\ log[4].at > log[1].resetTime /\ log[4].resetTime > log[1].resetTime

\* the number of times request r reported success for the user
Successes(r) ==
    IF input[r].endpoint # "approve-user" THEN 0
    ELSE IF input[r].method = "POST"
    THEN (IF pc[r] = "done" /\ response[r].status = 200 THEN 1 ELSE 0)
    ELSE Cardinality({ i \in DOMAIN local[r].results :
                          /\ local[r].results[i].userId = UserId
                          /\ local[r].results[i].status = "success" })

\* C30: the approve and reject requests for the user report at most one
\* success between them, and the user's status is then the one that
\* request gave
C30_DecidedAtMostOnce ==
    /\ Successes(1) + Successes(2) <= 1
    /\ \A r \in Requests :
          (Successes(r) = 1 /\ pc[r] = "done") => user.status = Decided(input[r].action)

=============================================================================
